---- MODULE Spec2Model ----
(***************************************************************************)
(* A model of the metadata virtualization layer of apple-reminders-mcp     *)
(* (src/unnamed/part_000): value normalizers, the metadata codec that      *)
(* packs tags and a location into the notes body, the smart-list registry, *)
(* the list resolver, the aggregation layer and the record operations,     *)
(* run against a model of the native reminders store.                      *)
(*                                                                         *)
(* A JavaScript string is a sequence of one-character strings, so that     *)
(* trimming, prefix stripping, the marker pattern, JSON text and base64url *)
(* are computed character by character as the code computes them.          *)
(***************************************************************************)
EXTENDS Integers, Sequences, FiniteSets, TLC

VARIABLES
    lists,      \* the native store: the real lists in enumeration order, each with its rows
    now,        \* the wall clock, in days and a position within the day
    nextId,     \* the next native identifier the store hands out
    op,         \* the operation that ran last and its arguments
    ret,        \* what it returned or threw
    calls,      \* the mutating calls it issued to the store
    steps       \* the number of operations run so far

vars == <<lists, now, nextId, op, ret, calls, steps>>

----------------------------------------------------------------------------
(* Characters and strings                                                  *)

Upper == <<"A","B","C","D","E","F","G","H","I","J","K","L","M",
           "N","O","P","Q","R","S","T","U","V","W","X","Y","Z">>
Lower == <<"a","b","c","d","e","f","g","h","i","j","k","l","m",
           "n","o","p","q","r","s","t","u","v","w","x","y","z">>
Digits == <<"0","1","2","3","4","5","6","7","8","9">>

\* ASCII 32..126 in code order (the grave accent, 96, is spelled out).
Printable ==
    <<" ","!","\"","#","$","%","&","'","(",")","*","+",",","-",".","/">>
    \o Digits \o <<":",";","<","=",">","?","@">>
    \o Upper \o <<"[","\\","]","^","_","<grave>">>
    \o Lower \o <<"{","|","}","~">>

\* A character that is not ASCII (U+FFFD and the like), and an ASCII control
\* character other than tab, line feed, form feed and carriage return.
NonAscii == "<U+FFFD>"
Control == "<ctl>"

Range(s) == {s[i] : i \in 1..Len(s)}

\* The characters of a string literal.
Chars(str) == [i \in 1..Len(str) |-> SubSeq(str, i, i)]

IndexIn(s, c) == CHOOSE i \in 1..Len(s) : s[i] = c

\* The white space of String.prototype.trim and of the pattern class \s.
IsSpace(c) == c \in {" ", "\t", "\n", "\r", "\f"}

\* String.prototype.toLowerCase on one character.
LowerChar(c) == IF c \in Range(Upper) THEN Lower[IndexIn(Upper, c)] ELSE c

ToLowerCase(s) == [i \in 1..Len(s) |-> LowerChar(s[i])]

\* The number of white-space characters s starts with, and ends with.
RECURSIVE LeadingSpace(_)
LeadingSpace(s) ==
    IF s = <<>> \/ ~IsSpace(Head(s)) THEN 0 ELSE 1 + LeadingSpace(Tail(s))

RECURSIVE TrailingSpace(_)
TrailingSpace(s) ==
    IF s = <<>> \/ ~IsSpace(s[Len(s)]) THEN 0
    ELSE 1 + TrailingSpace(SubSeq(s, 1, Len(s) - 1))

TrimEnd(s) == SubSeq(s, 1, Len(s) - TrailingSpace(s))

TrimStart(s) == SubSeq(s, LeadingSpace(s) + 1, Len(s))

Trim(s) == TrimEnd(TrimStart(s))

StartsWith(s, p) == Len(s) >= Len(p) /\ SubSeq(s, 1, Len(p)) = p

Slice(s, from) == SubSeq(s, from + 1, Len(s))

\* Whether p occurs in s as a substring.
Includes(s, p) ==
    \E i \in 1..(Len(s) - Len(p) + 1) : SubSeq(s, i, i + Len(p) - 1) = p

\* All strings over an alphabet up to a length.
RECURSIVE StringsUpTo(_, _)
StringsUpTo(alphabet, n) ==
    IF n = 0 THEN {<<>>}
    ELSE LET shorter == StringsUpTo(alphabet, n - 1)
         IN shorter \cup {Append(s, c) : s \in shorter, c \in alphabet}

\* All sequences over a set up to a length.
RECURSIVE SeqsUpTo(_, _)
SeqsUpTo(S, n) ==
    IF n = 0 THEN {<<>>}
    ELSE LET shorter == SeqsUpTo(S, n - 1)
         IN shorter \cup {Append(s, e) : s \in shorter, e \in S}

----------------------------------------------------------------------------
(* JavaScript values: what the callers pass and what JSON.parse returns.   *)
(* A number is an integer, or one of the values that are not finite.       *)

JUndef == [t |-> "undefined"]
JNull == [t |-> "null"]
JBool(b) == [t |-> "boolean", b |-> b]
JNum(n) == [t |-> "number", n |-> n, finite |-> TRUE]
JInfinity == [t |-> "number", n |-> 1, finite |-> FALSE]
JNaN == [t |-> "number", n |-> 0, finite |-> FALSE]
JStr(s) == [t |-> "string", s |-> s]
JArr(a) == [t |-> "array", a |-> a]
\* An object is its properties in insertion order, each <<key, value>>.
JObj(props) == [t |-> "object", props |-> props]

\* ToBoolean(v) is false.
Falsy(v) ==
    \/ v.t \in {"undefined", "null"}
    \/ v.t = "boolean" /\ ~v.b
    \/ v.t = "number" /\ (v = JNaN \/ (v.finite /\ v.n = 0))
    \/ v.t = "string" /\ v.s = <<>>

HasProp(props, key) == \E i \in 1..Len(props) : props[i][1] = key

PropOf(props, key) ==
    props[CHOOSE i \in 1..Len(props) :
            /\ props[i][1] = key
            /\ \A j \in (i + 1)..Len(props) : props[j][1] # key][2]

\* v.key for a value that is neither undefined nor null.
Get(v, key) ==
    IF v.t = "object" /\ HasProp(v.props, key) THEN PropOf(v.props, key)
    ELSE JUndef

IsFiniteNumber(v) == v.t = "number" /\ v.finite

\* obj[key] = value: an existing property keeps its place.
SetProp(props, key, value) ==
    IF HasProp(props, key)
    THEN [i \in 1..Len(props) |->
            IF props[i][1] = key THEN <<key, value>> ELSE props[i]]
    ELSE Append(props, <<key, value>>)

\* delete obj[key]
RECURSIVE DeleteProp(_, _)
DeleteProp(props, key) ==
    IF props = <<>> THEN <<>>
    ELSE IF Head(props)[1] = key THEN DeleteProp(Tail(props), key)
    ELSE <<Head(props)>> \o DeleteProp(Tail(props), key)

----------------------------------------------------------------------------
(* Value normalizers                                                       *)

kTags == Chars("tags")
kLocation == Chars("location")
kTitle == Chars("title")
kLatitude == Chars("latitude")
kLongitude == Chars("longitude")
kRadiusMeters == Chars("radiusMeters")
kProximity == Chars("proximity")
kFlagged == Chars("flagged")
kPriority == Chars("priority")
sArriving == Chars("arriving")
sLeaving == Chars("leaving")

LatitudeMin == -90
LatitudeMax == 90
LongitudeMin == -180
LongitudeMax == 180

\* A returned value, and a thrown error.
Returns(v) == [ok |-> TRUE, v |-> v]
Throws(e) == [ok |-> FALSE, e |-> e]

\* tag.replace(/^#+/, "")
RECURSIVE StripLeadingHashes(_)
StripLeadingHashes(s) ==
    IF s # <<>> /\ Head(s) = "#" THEN StripLeadingHashes(Tail(s)) ELSE s

\* Whether a string is among the keys of the Map, compared lower-cased.
HasKey(values, key) ==
    \E i \in 1..Len(values) : ToLowerCase(values[i]) = key

\* The loop of normalizeTags over what iterating the argument yields: the
\* Map's values so far are in `deduped`, in insertion order.
RECURSIVE NormalizeTagsLoop(_, _)
NormalizeTagsLoop(elems, deduped) ==
    IF elems = <<>> THEN Returns(JArr([i \in 1..Len(deduped) |-> JStr(deduped[i])]))
    ELSE IF Head(elems).t # "string" THEN Throws("TypeError")
    ELSE LET normalized == StripLeadingHashes(Trim(Head(elems).s))
             key == ToLowerCase(normalized)
         IN IF normalized = <<>> THEN NormalizeTagsLoop(Tail(elems), deduped)
            ELSE IF HasKey(deduped, key) THEN NormalizeTagsLoop(Tail(elems), deduped)
            ELSE NormalizeTagsLoop(Tail(elems), Append(deduped, normalized))

\* What `for (const tag of tags)` iterates: the elements of an array, the
\* characters of a string; any other value is not iterable.
Iterable(v) == v.t \in {"array", "string"}
IterationOf(v) ==
    IF v.t = "array" THEN v.a ELSE [i \in 1..Len(v.s) |-> JStr(<<v.s[i]>>)]

\* normalizeTags: the array of tag strings, or the TypeError a value of the
\* wrong shape raises.
normalizeTags(tags) ==
    IF Falsy(tags) THEN Returns(JArr(<<>>))
    ELSE IF ~Iterable(tags) THEN Throws("TypeError")
    ELSE NormalizeTagsLoop(IterationOf(tags), <<>>)

\* The steps of normalizeLocation, each from the object built so far.
WithTitle(location, normalized) ==
    LET title == Get(location, kTitle)
    IN IF title.t = "string" /\ Trim(title.s) # <<>>
       THEN SetProp(normalized, kTitle, JStr(Trim(title.s)))
       ELSE normalized

LatitudeOutOfRange(location) ==
    LET latitude == Get(location, kLatitude)
    IN IsFiniteNumber(latitude)
       /\ (latitude.n < LatitudeMin \/ latitude.n > LatitudeMax)

WithLatitude(location, normalized) ==
    LET latitude == Get(location, kLatitude)
    IN IF IsFiniteNumber(latitude) /\ ~LatitudeOutOfRange(location)
       THEN SetProp(normalized, kLatitude, latitude)
       ELSE normalized

LongitudeOutOfRange(location) ==
    LET longitude == Get(location, kLongitude)
    IN IsFiniteNumber(longitude)
       /\ (longitude.n < LongitudeMin \/ longitude.n > LongitudeMax)

WithLongitude(location, normalized) ==
    LET longitude == Get(location, kLongitude)
    IN IF IsFiniteNumber(longitude) /\ ~LongitudeOutOfRange(location)
       THEN SetProp(normalized, kLongitude, longitude)
       ELSE normalized

RadiusOutOfRange(location) ==
    LET radiusMeters == Get(location, kRadiusMeters)
    IN IsFiniteNumber(radiusMeters) /\ radiusMeters.n <= 0

WithRadius(location, normalized) ==
    LET radiusMeters == Get(location, kRadiusMeters)
    IN IF IsFiniteNumber(radiusMeters) /\ ~RadiusOutOfRange(location)
       THEN SetProp(normalized, kRadiusMeters, radiusMeters)
       ELSE normalized

ProximityKnown(location) ==
    LET proximity == Get(location, kProximity)
    IN proximity.t = "string" /\ proximity.s \in {sArriving, sLeaving}

WithProximity(location, normalized) ==
    IF ProximityKnown(location)
    THEN SetProp(normalized, kProximity, Get(location, kProximity))
    ELSE normalized

\* hasLatitude !== hasLongitude
Unpaired(normalized) ==
    HasProp(normalized, kLatitude) # HasProp(normalized, kLongitude)

WithPair(normalized) ==
    IF Unpaired(normalized)
    THEN DeleteProp(DeleteProp(normalized, kLatitude), kLongitude)
    ELSE normalized

\* The fields normalizeLocation has copied when it reaches the pair check.
CollectedFields(location) ==
    WithProximity(location,
        WithRadius(location,
            WithLongitude(location,
                WithLatitude(location, WithTitle(location, <<>>)))))

\* Object.keys(normalized).length === 0
LocationOrNull(normalized) ==
    IF normalized = <<>> THEN Returns(JNull) ELSE Returns(JObj(normalized))

\* The check that takes the strict mode for the lenient one.
CheckedLocation_Lenient(location, strict, normalized) ==
    LocationOrNull(WithPair(normalized))

\* The error strict mode throws first, or the object left by the pair check.
CheckedLocation(location, strict, normalized) ==
    IF strict /\ LatitudeOutOfRange(location)
      THEN Throws("location.latitude must be between -90 and 90")
    ELSE IF strict /\ LongitudeOutOfRange(location)
      THEN Throws("location.longitude must be between -180 and 180")
    ELSE IF strict /\ RadiusOutOfRange(location)
      THEN Throws("location.radiusMeters must be greater than 0")
    ELSE IF strict /\ ~ProximityKnown(location)
                  /\ Get(location, kProximity).t # "undefined"
      THEN Throws("location.proximity must be \"arriving\" or \"leaving\"")
    ELSE IF strict /\ Unpaired(normalized)
      THEN Throws("location.latitude and location.longitude must be provided together")
    ELSE LocationOrNull(WithPair(normalized))

\* normalizeLocation: the normalized object, null when nothing survives, or
\* the first error the strict mode throws.
normalizeLocation(location, strict) ==
    IF Falsy(location) THEN Returns(JNull)
    ELSE CheckedLocation(location, strict, CollectedFields(location))

----------------------------------------------------------------------------
(* JSON.stringify                                                          *)

RECURSIVE DigitsOf(_)
DigitsOf(n) ==
    IF n < 10 THEN <<Digits[n + 1]>>
    ELSE Append(DigitsOf(n \div 10), Digits[(n % 10) + 1])

NumberToString(n) == IF n < 0 THEN <<"-">> \o DigitsOf(-n) ELSE DigitsOf(n)

\* One character of a string inside its quotes.
QuoteChar(c) ==
    CASE c = "\"" -> <<"\\", "\"">>
      [] c = "\\" -> <<"\\", "\\">>
      [] c = "\n" -> <<"\\", "n">>
      [] c = "\r" -> <<"\\", "r">>
      [] c = "\t" -> <<"\\", "t">>
      [] c = "\f" -> <<"\\", "f">>
      [] c = Control -> <<"\\", "u", "0", "0", "0", "1">>
      [] OTHER -> <<c>>

\* The characters of s, each as it is written inside the quotes.
RECURSIVE QuoteChars(_)
QuoteChars(s) ==
    IF s = <<>> THEN <<>>
    ELSE IF Len(s) = 1 THEN QuoteChar(s[1])
    ELSE QuoteChars(SubSeq(s, 1, Len(s) \div 2))
         \o QuoteChars(SubSeq(s, Len(s) \div 2 + 1, Len(s)))

Quote(s) == <<"\"">> \o QuoteChars(s) \o <<"\"">>

sNullText == Chars("null")
sTrueText == Chars("true")
sFalseText == Chars("false")

RECURSIVE Stringify(_)
RECURSIVE StringifyElements(_)
RECURSIVE StringifyProps(_, _)

\* The elements of an array, comma separated; undefined is written null.
StringifyElements(a) ==
    IF a = <<>> THEN <<>>
    ELSE (IF Head(a).t = "undefined" THEN sNullText ELSE Stringify(Head(a)))
         \o (IF Len(a) > 1 THEN <<",">> ELSE <<>>)
         \o StringifyElements(Tail(a))

\* The properties of an object; a property whose value is undefined is left out.
StringifyProps(props, first) ==
    IF props = <<>> THEN <<>>
    ELSE IF Head(props)[2].t = "undefined" THEN StringifyProps(Tail(props), first)
    ELSE (IF first THEN <<>> ELSE <<",">>)
         \o Quote(Head(props)[1]) \o <<":">> \o Stringify(Head(props)[2])
         \o StringifyProps(Tail(props), FALSE)

Stringify(v) ==
    CASE v.t = "string" -> Quote(v.s)
      [] v.t = "number" -> IF v.finite THEN NumberToString(v.n) ELSE sNullText
      [] v.t = "boolean" -> IF v.b THEN sTrueText ELSE sFalseText
      [] v.t = "array" -> <<"[">> \o StringifyElements(v.a) \o <<"]">>
      [] v.t = "object" -> <<"{">> \o StringifyProps(v.props, TRUE) \o <<"}">>
      [] OTHER -> sNullText

----------------------------------------------------------------------------
(* Buffer.from(text, "utf8"), toString("base64url") and back               *)

\* The UTF-8 bytes of one character (the characters typed are ASCII).
BytesOfChar(c) ==
    CASE c = "\t" -> <<9>>
      [] c = "\n" -> <<10>>
      [] c = "\f" -> <<12>>
      [] c = "\r" -> <<13>>
      [] c = Control -> <<1>>
      [] c = "<del>" -> <<127>>
      [] c = NonAscii -> <<239, 191, 189>>
      [] OTHER -> <<31 + IndexIn(Printable, c)>>

\* The bytes of the characters of s, one character after the other.
RECURSIVE Utf8Bytes(_)
Utf8Bytes(s) ==
    IF s = <<>> THEN <<>>
    ELSE IF Len(s) = 1 THEN BytesOfChar(s[1])
    ELSE Utf8Bytes(SubSeq(s, 1, Len(s) \div 2))
         \o Utf8Bytes(SubSeq(s, Len(s) \div 2 + 1, Len(s)))

\* The character a byte decodes to; a byte above 127 is, or is part of, a
\* character that is not ASCII.
CharOfByte(b) ==
    CASE b = 9 -> "\t"
      [] b = 10 -> "\n"
      [] b = 12 -> "\f"
      [] b = 13 -> "\r"
      [] b < 32 -> Control
      [] b = 127 -> "<del>"
      [] b > 127 -> NonAscii
      [] OTHER -> Printable[b - 31]

Utf8String(bytes) == [i \in 1..Len(bytes) |-> CharOfByte(bytes[i])]

\* The base64url alphabet, in value order.
Base64Url == Upper \o Lower \o Digits \o <<"-", "_">>

IsTokenChar(c) == c \in Range(Base64Url)

SextetChar(n) == Base64Url[n + 1]
SextetOf(c) == IndexIn(Base64Url, c) - 1

\* The byte at index i, and 0 past the end.
ByteAt(b, i) == IF i <= Len(b) THEN b[i] ELSE 0

\* The k-th character (0 to 3) of the group that starts at byte g.
GroupChar(b, g, k) ==
    CASE k = 0 -> SextetChar(b[g] \div 4)
      [] k = 1 -> SextetChar((b[g] % 4) * 16 + ByteAt(b, g + 1) \div 16)
      [] k = 2 -> SextetChar((ByteAt(b, g + 1) % 16) * 4 + ByteAt(b, g + 2) \div 64)
      [] k = 3 -> SextetChar(ByteAt(b, g + 2) % 64)

\* Three bytes make four characters; one or two bytes left over make two or
\* three, and base64url writes no padding.
Base64UrlEncode(b) ==
    [i \in 1..((Len(b) * 4 + 2) \div 3) |->
        GroupChar(b, ((i - 1) \div 4) * 3 + 1, (i - 1) % 4)]

\* The k-th byte (0 to 2) of the group that starts at character g.
GroupByte(c, g, k) ==
    CASE k = 0 -> SextetOf(c[g]) * 4 + SextetOf(c[g + 1]) \div 16
      [] k = 1 -> (SextetOf(c[g + 1]) % 16) * 16 + SextetOf(c[g + 2]) \div 4
      [] k = 2 -> (SextetOf(c[g + 2]) % 4) * 64 + SextetOf(c[g + 3])

\* Four characters make three bytes; two or three characters left over make
\* one or two bytes, and a single character left over makes none.
Base64UrlDecode(c) ==
    [i \in 1..((Len(c) * 3) \div 4) |->
        GroupByte(c, ((i - 1) \div 3) * 4 + 1, (i - 1) % 3)]

----------------------------------------------------------------------------
(* JSON.parse: a result is [ok, v, i], the value and the index after it.   *)
(* A number written with a fraction or an exponent is read as its integer  *)
(* part: the numbers of the model are integers.                            *)

ParseFail == [ok |-> FALSE, v |-> JNull, i |-> 0]
Parsed(v, i) == [ok |-> TRUE, v |-> v, i |-> i]

CharAt(s, i) == IF i >= 1 /\ i <= Len(s) THEN s[i] ELSE "<eof>"

IsJsonSpace(c) == c \in {" ", "\t", "\n", "\r"}
IsDigit(c) == c \in Range(Digits)
DigitValue(c) == IndexIn(Digits, c) - 1

HexDigits == Digits \o <<"a","b","c","d","e","f">>
IsHex(c) == LowerChar(c) \in Range(HexDigits)
HexValue(c) == IndexIn(HexDigits, LowerChar(c)) - 1

RECURSIVE SkipSpace(_, _)
SkipSpace(s, i) == IF IsJsonSpace(CharAt(s, i)) THEN SkipSpace(s, i + 1) ELSE i

\* The digits from i on: [n, i], the value read and the index after them.
RECURSIVE ReadDigits(_, _, _)
ReadDigits(s, i, n) ==
    IF IsDigit(CharAt(s, i)) THEN ReadDigits(s, i + 1, n * 10 + DigitValue(s[i]))
    ELSE [n |-> n, i |-> i]

\* -? (0 | [1-9][0-9]*) (\.[0-9]+)? ([eE][+-]?[0-9]+)?
\* The exponent, read from e, where the fraction ended.
NumberExponent(s, n, e) ==
    LET d == IF CharAt(s, e + 1) \in {"+", "-"} THEN e + 2 ELSE e + 1
    IN IF CharAt(s, e) \notin {"e", "E"} THEN Parsed(JNum(n), e)
       ELSE IF IsDigit(CharAt(s, d)) THEN Parsed(JNum(n), ReadDigits(s, d, 0).i)
       ELSE ParseFail

\* The fraction, read from where the integer part ended.
NumberFraction(s, n, i) ==
    IF CharAt(s, i) # "." THEN NumberExponent(s, n, i)
    ELSE IF IsDigit(CharAt(s, i + 1))
      THEN NumberExponent(s, n, ReadDigits(s, i + 1, 0).i)
    ELSE ParseFail

\* The integer part, read from j, after the sign.
NumberInteger(s, neg, int) ==
    NumberFraction(s, IF neg THEN -int.n ELSE int.n, int.i)

ParseNumber(s, i) ==
    LET neg == CharAt(s, i) = "-"
        j == IF neg THEN i + 1 ELSE i
    IN IF ~IsDigit(CharAt(s, j)) THEN ParseFail
       ELSE IF CharAt(s, j) = "0" THEN NumberInteger(s, neg, [n |-> 0, i |-> j + 1])
       ELSE NumberInteger(s, neg, ReadDigits(s, j, 0))

CharOfCode(n) == IF n < 256 THEN CharOfByte(n) ELSE NonAscii

\* The characters of a string from i (after its opening quote) to its
\* closing quote; a raw control character, line breaks included, is an error.
RECURSIVE ParseStringBody(_, _, _)

\* The index after the run of ordinary characters that starts at i: that of
\* the next quote, backslash or control character, or of the end of the text.
PlainEnd(s, i) ==
    CHOOSE j \in i..(Len(s) + 1) :
        /\ j = Len(s) + 1 \/ s[j] \in {"\"", "\\", Control, "\n", "\t", "\r", "\f"}
        /\ \A k \in i..(j - 1) : s[k] \notin {"\"", "\\", Control, "\n", "\t", "\r", "\f"}

\* The run of ordinary characters from i to j - 1 read in one step.
AfterPlain(s, i, acc, j) == ParseStringBody(s, j, acc \o SubSeq(s, i, j - 1))

ParseStringBody(s, i, acc) ==
    LET c == CharAt(s, i)
        x == CharAt(s, i + 1)
    IN CASE c = "\"" -> Parsed(JStr(acc), i + 1)
         [] c \in {"<eof>", Control, "\n", "\t", "\r", "\f"} -> ParseFail
         [] c = "\\" ->
              (CASE x \in {"\"", "\\", "/"} -> ParseStringBody(s, i + 2, Append(acc, x))
                 [] x = "n" -> ParseStringBody(s, i + 2, Append(acc, "\n"))
                 [] x = "t" -> ParseStringBody(s, i + 2, Append(acc, "\t"))
                 [] x = "r" -> ParseStringBody(s, i + 2, Append(acc, "\r"))
                 [] x = "f" -> ParseStringBody(s, i + 2, Append(acc, "\f"))
                 [] x = "b" -> ParseStringBody(s, i + 2, Append(acc, Control))
                 [] x = "u" /\ \A k \in 2..5 : IsHex(CharAt(s, i + k)) ->
                      ParseStringBody(s, i + 6, Append(acc,
                          CharOfCode(HexValue(s[i + 2]) * 4096 + HexValue(s[i + 3]) * 256
                                     + HexValue(s[i + 4]) * 16 + HexValue(s[i + 5]))))
                 [] OTHER -> ParseFail)
         [] OTHER -> AfterPlain(s, i, acc, PlainEnd(s, i))

IsLiteralAt(s, i, text) ==
    i >= 1 /\ i + Len(text) - 1 <= Len(s) /\ SubSeq(s, i, i + Len(text) - 1) = text

RECURSIVE ParseValue(_, _)
RECURSIVE ParseArrayRest(_, _, _)
RECURSIVE ParseObjectRest(_, _, _)

\* After the element r of an array: a comma and the rest, or the bracket.
ArrayAfterValue(s, acc, r) ==
    LET j == SkipSpace(s, r.i)
    IN IF ~r.ok THEN ParseFail
       ELSE IF CharAt(s, j) = "," THEN ParseArrayRest(s, j + 1, Append(acc, r.v))
       ELSE IF CharAt(s, j) = "]" THEN Parsed(JArr(Append(acc, r.v)), j + 1)
       ELSE ParseFail

\* The elements from i on, the first of them a value, up to the closing bracket.
ParseArrayRest(s, i, acc) == ArrayAfterValue(s, acc, ParseValue(s, i))

\* After the value r of the member named key: a comma and the rest, or the
\* brace; a key given twice keeps its first place and its last value.
ObjectAfterValue(s, props, key, r) ==
    LET e == SkipSpace(s, r.i)
    IN IF ~r.ok THEN ParseFail
       ELSE IF CharAt(s, e) = ","
         THEN ParseObjectRest(s, e + 1, SetProp(props, key, r.v))
       ELSE IF CharAt(s, e) = "}"
         THEN Parsed(JObj(SetProp(props, key, r.v)), e + 1)
       ELSE ParseFail

\* After the key k of a member: the colon and the value.
ObjectAfterKey(s, props, k) ==
    LET c == SkipSpace(s, k.i)
    IN IF k.ok /\ CharAt(s, c) = ":"
       THEN ObjectAfterValue(s, props, k.v.s, ParseValue(s, c + 1))
       ELSE ParseFail

\* The members from i on, the first of them a key, up to the closing brace.
ParseObjectRest(s, i, props) ==
    LET j == SkipSpace(s, i)
    IN IF CharAt(s, j) = "\""
       THEN ObjectAfterKey(s, props, ParseStringBody(s, j + 1, <<>>))
       ELSE ParseFail

ParseValue(s, at) ==
    LET i == SkipSpace(s, at)
        c == CharAt(s, i)
    IN CASE c = "{" ->
              IF CharAt(s, SkipSpace(s, i + 1)) = "}"
              THEN Parsed(JObj(<<>>), SkipSpace(s, i + 1) + 1)
              ELSE ParseObjectRest(s, i + 1, <<>>)
         [] c = "[" ->
              IF CharAt(s, SkipSpace(s, i + 1)) = "]"
              THEN Parsed(JArr(<<>>), SkipSpace(s, i + 1) + 1)
              ELSE ParseArrayRest(s, i + 1, <<>>)
         [] c = "\"" -> ParseStringBody(s, i + 1, <<>>)
         [] c = "-" \/ IsDigit(c) -> ParseNumber(s, i)
         [] IsLiteralAt(s, i, sTrueText) -> Parsed(JBool(TRUE), i + 4)
         [] IsLiteralAt(s, i, sFalseText) -> Parsed(JBool(FALSE), i + 5)
         [] IsLiteralAt(s, i, sNullText) -> Parsed(JNull, i + 4)
         [] OTHER -> ParseFail

\* The whole text must be one value, white space around it allowed.
WholeText(text, r) ==
    IF r.ok /\ SkipSpace(text, r.i) = Len(text) + 1 THEN Returns(r.v)
    ELSE Throws("SyntaxError")

\* JSON.parse(text): the value, or the SyntaxError.
JsonParse(text) == WholeText(text, ParseValue(text, 1))

----------------------------------------------------------------------------
(* Metadata codec                                                          *)

METADATA_PREFIX == Chars("[[mcp-reminder-meta:")
METADATA_SUFFIX == Chars("]]")

\* compactMetadata with the location left out.
CompactMetadata_TagsOnly(tags, location) ==
    IF Len(tags.a) > 0 THEN <<<<kTags, tags>>>> ELSE <<>>

\* compactMetadata: the tags when there are any, the location when there is one.
CompactMetadata(tags, location) ==
    (IF Len(tags.a) > 0 THEN <<<<kTags, tags>>>> ELSE <<>>)
    \o (IF ~Falsy(location) THEN <<<<kLocation, location>>>> ELSE <<>>)

\* The token of whatever is left, an empty object included.
EncodeCompact_Always(compactMetadata) ==
    Returns(JStr(Base64UrlEncode(Utf8Bytes(Stringify(JObj(compactMetadata))))))

\* Buffer.from(JSON.stringify(compactMetadata), "utf8").toString("base64url")
EncodeCompact(compactMetadata) ==
    IF compactMetadata = <<>> THEN Returns(JNull)
    ELSE Returns(JStr(Base64UrlEncode(Utf8Bytes(Stringify(JObj(compactMetadata))))))

EncodeNormalized(tags, location) ==
    IF ~tags.ok THEN tags ELSE EncodeCompact(CompactMetadata(tags.v, location.v))

\* encodeMetadata: the token, or null when nothing is left to encode.
encodeMetadata(metadata) ==
    EncodeNormalized(normalizeTags(Get(metadata, kTags)),
                     normalizeLocation(Get(metadata, kLocation), FALSE))

HasNotes(notes) == notes.t = "string" /\ Len(Trim(notes.s)) > 0

\* The body made of the notes and the token.
ComposeEncoded(notes, encodedMetadata) ==
    IF ~encodedMetadata.ok THEN encodedMetadata
    ELSE IF Falsy(encodedMetadata.v)
      THEN Returns(IF HasNotes(notes) THEN notes ELSE JUndef)
    ELSE Returns(JStr((IF HasNotes(notes) THEN notes.s \o <<"\n", "\n">> ELSE <<>>)
                      \o METADATA_PREFIX \o encodedMetadata.v.s \o METADATA_SUFFIX))

\* composeReminderBody: the body to store, or undefined.
composeReminderBody(notes, metadata) ==
    ComposeEncoded(notes, encodeMetadata(metadata))

\* The first index of the run of token characters that ends at index last
\* (last + 1 when body[last] is not a token character).
TokenStart(body, last) ==
    CHOOSE t \in 1..(last + 1) :
        /\ \A k \in t..last : IsTokenChar(body[k])
        /\ t = 1 \/ ~IsTokenChar(body[t - 1])

NoMatch == [found |-> FALSE, index |-> 0, encoded |-> <<>>]

\* The token runs from t to e - 2; the prefix must end right before it, and
\* the match starts with all the white space before the prefix.
MatchToken(body, e, t) ==
    LET p == t - Len(METADATA_PREFIX)
    IN IF t <= e - 2 /\ p >= 1 /\ SubSeq(body, p, t - 1) = METADATA_PREFIX
       THEN [found |-> TRUE,
             index |-> p - 1 - TrailingSpace(SubSeq(body, 1, p - 1)),
             encoded |-> SubSeq(body, t, e - 2)]
       ELSE NoMatch

\* The suffix must end at e, where the trailing white space starts.
MatchEndingAt(body, e) ==
    IF e >= 2 /\ SubSeq(body, e - 1, e) = METADATA_SUFFIX
    THEN MatchToken(body, e, TokenStart(body, e - 2))
    ELSE NoMatch

\* The pattern without its anchor: the first marker of the body.
MatchMetadata_Unanchored(body) ==
    LET ends == {e \in 2..Len(body) : MatchEndingAt(body, e).found}
    IN IF ends = {} THEN NoMatch
       ELSE MatchEndingAt(body, CHOOSE e \in ends : \A f \in ends : e <= f)

\* body.match(/\s*\[\[mcp-reminder-meta:([A-Za-z0-9_-]+)\]\]\s*$/). The match
\* ends at the end of the body, so it is read from there: white space, the
\* suffix, the token (the whole run of token characters before the suffix,
\* since the prefix ends with a colon), the prefix, and, the match being the
\* leftmost one, all the white space before the prefix.
\* [found, index, encoded]: index is match.index, counted from 0.
MatchMetadata(body) == MatchEndingAt(body, Len(body) - TrailingSpace(body))

\* The metadata object parseReminderBody returns from the normalized fields.
DecodedMetadata(tags, location) ==
    IF ~tags.ok THEN tags
    ELSE IF ~location.ok THEN location
    ELSE Returns(JObj(<<<<kTags, tags.v>>,
                        <<kLocation, IF location.v.t = "null" THEN JUndef
                                     ELSE location.v>>>>))

\* The decoding with the location normalized strictly.
DecodeParsed_Strict(parsed) ==
    IF ~parsed.ok THEN parsed
    ELSE IF parsed.v.t = "null" THEN Throws("TypeError")
    ELSE DecodedMetadata(normalizeTags(Get(parsed.v, kTags)),
                         normalizeLocation(Get(parsed.v, kLocation), TRUE))

\* parsed.tags and parsed.location of what JSON.parse returned; reading a
\* property of null is a TypeError.
DecodeParsed(parsed) ==
    IF ~parsed.ok THEN parsed
    ELSE IF parsed.v.t = "null" THEN Throws("TypeError")
    ELSE DecodedMetadata(normalizeTags(Get(parsed.v, kTags)),
                         normalizeLocation(Get(parsed.v, kLocation), FALSE))

\* The try block of parseReminderBody: the metadata read from the token, or
\* what was thrown on the way.
DecodeMetadata(encoded) ==
    DecodeParsed(JsonParse(Utf8String(Base64UrlDecode(encoded))))

\* The catch returning the notes before the marker instead of the body.
ParseDecoded_NotesPortion(body, notesPortion, metadata) ==
    [notes |-> IF notesPortion = <<>> THEN JNull ELSE JStr(notesPortion),
     metadata |-> IF metadata.ok THEN metadata.v ELSE JObj(<<>>),
     threw |-> ~metadata.ok]

\* The parts once the try block has run: threw says whether the catch ran.
ParseDecoded(body, notesPortion, metadata) ==
    IF metadata.ok
    THEN [notes |-> IF notesPortion = <<>> THEN JNull ELSE JStr(notesPortion),
          metadata |-> metadata.v, threw |-> FALSE]
    ELSE [notes |-> body, metadata |-> JObj(<<>>), threw |-> TRUE]

ParseMatched(body, match) ==
    IF ~match.found THEN [notes |-> body, metadata |-> JObj(<<>>), threw |-> FALSE]
    ELSE ParseDecoded(body, TrimEnd(SubSeq(body.s, 1, match.index)),
                      DecodeMetadata(match.encoded))

\* parseReminderBody: [notes, metadata, threw].
parseReminderBody(body) ==
    IF Falsy(body) THEN [notes |-> JNull, metadata |-> JObj(<<>>), threw |-> FALSE]
    ELSE ParseMatched(body, MatchMetadata(body.s))

----------------------------------------------------------------------------
(* Dates. Time is counted in instants from the epoch, TicksPerDay of them  *)
(* to a local day; a Date holds an instant, or is an Invalid Date.         *)

TicksPerDay == 2

JDate(time) == [t |-> "date", time |-> time, valid |-> TRUE]
JInvalidDate == [t |-> "date", time |-> 0, valid |-> FALSE]

DayOf(time) == time \div TicksPerDay

\* new Date(text) for the date strings of the model: an ISO date of January
\* 1970 is midnight of that day, and the other strings used are not dates.
DateOfString(text) ==
    IF /\ Len(text) = 10
       /\ SubSeq(text, 1, 8) = Chars("1970-01-")
       /\ IsDigit(text[9]) /\ IsDigit(text[10])
       /\ DigitValue(text[9]) * 10 + DigitValue(text[10]) \in 1..31
    THEN JDate((DigitValue(text[9]) * 10 + DigitValue(text[10]) - 1) * TicksPerDay)
    ELSE JInvalidDate

\* normalizeDateValue: the date, or null for no date, an Invalid Date and the epoch.
normalizeDateValue(date) ==
    IF Falsy(date) THEN JNull
    ELSE LET dateObj == IF date.t = "string" THEN DateOfString(date.s) ELSE date
         IN IF ~dateObj.valid THEN JNull
            ELSE IF dateObj.time = 0 THEN JNull
            ELSE dateObj

\* item.completed ?? false, item.flagged ?? false
isCompleted(item) == item.completed.t = "boolean" /\ item.completed.b
isFlagged(item) == item.flagged.t = "boolean" /\ item.flagged.b

dueDateOf(item) == normalizeDateValue(item.dueDate)

isDueToday(item, clock) ==
    LET dueDate == dueDateOf(item)
    IN dueDate.t # "null" /\ DayOf(dueDate.time) = DayOf(clock)

\* isOverdue without the test of completion.
isOverdue_OfCompleted(item, clock) ==
    LET dueDate == dueDateOf(item)
    IN IF dueDate.t = "null" THEN FALSE
       ELSE dueDate.time < clock

isOverdue(item, clock) ==
    LET dueDate == dueDateOf(item)
    IN IF dueDate.t = "null" \/ isCompleted(item) THEN FALSE
       ELSE dueDate.time < clock

\* parseDueDate: the Date, or the error naming the string.
parseDueDate(dueDate) ==
    LET parsedDate == DateOfString(dueDate)
    IN IF ~parsedDate.valid
       THEN Throws(Chars("Invalid dueDate \"") \o dueDate
                   \o Chars("\". Use an ISO-compatible date string."))
       ELSE Returns(parsedDate)

\* formatDate: whether the record carries a due date, and its instant
\* (toISOString writes the instant out).
formatDate(date) == normalizeDateValue(date)

----------------------------------------------------------------------------
(* Smart list registry                                                     *)

SMART_LIST_PREFIX == Chars("Smart: ")

SMART_LISTS ==
    <<[name |-> Chars("All"), aliases |-> <<Chars("all reminders")>>],
      [name |-> Chars("Today"), aliases |-> <<>>],
      [name |-> Chars("Scheduled"), aliases |-> <<Chars("planned")>>],
      [name |-> Chars("Flagged"), aliases |-> <<>>],
      [name |-> Chars("Completed"), aliases |-> <<>>],
      [name |-> Chars("Overdue"), aliases |-> <<>>]>>

\* The predicates with Flagged true of every flagged item.
Predicate_FlaggedOnly(smartList, item, clock) ==
    CASE smartList.name = Chars("All") -> TRUE
      [] smartList.name = Chars("Today") -> ~isCompleted(item) /\ isDueToday(item, clock)
      [] smartList.name = Chars("Scheduled") ->
            ~isCompleted(item) /\ dueDateOf(item).t # "null"
      [] smartList.name = Chars("Flagged") -> isFlagged(item)
      [] smartList.name = Chars("Completed") -> isCompleted(item)
      [] smartList.name = Chars("Overdue") -> isOverdue(item, clock)

\* smartList.predicate(item), evaluated when the clock reads `clock`.
Predicate(smartList, item, clock) ==
    CASE smartList.name = Chars("All") -> TRUE
      [] smartList.name = Chars("Today") -> ~isCompleted(item) /\ isDueToday(item, clock)
      [] smartList.name = Chars("Scheduled") ->
            ~isCompleted(item) /\ dueDateOf(item).t # "null"
      [] smartList.name = Chars("Flagged") -> ~isCompleted(item) /\ isFlagged(item)
      [] smartList.name = Chars("Completed") -> isCompleted(item)
      [] smartList.name = Chars("Overdue") -> isOverdue(item, clock)

smartListDisplayName(smartListName) == SMART_LIST_PREFIX \o smartListName

normalizeListName(value) == ToLowerCase(Trim(value))

\* Whether the loop of getSmartListByName returns at this definition.
SmartListMatches(smartList, normalizedName, normalizedStrippedName) ==
    LET canonicalName == normalizeListName(smartList.name)
    IN \/ normalizedStrippedName = canonicalName
       \/ normalizedName = canonicalName
       \/ \E a \in 1..Len(smartList.aliases) :
             normalizeListName(smartList.aliases[a]) = normalizedStrippedName

\* normalizedStrippedName without the trim after the prefix is cut.
StrippedName_Untrimmed(normalizedName) ==
    IF StartsWith(normalizedName, Chars("smart:"))
    THEN Slice(normalizedName, Len(Chars("smart:")))
    ELSE normalizedName

\* normalizedStrippedName: the name without a leading "smart:".
StrippedName(normalizedName) ==
    IF StartsWith(normalizedName, Chars("smart:"))
    THEN Trim(Slice(normalizedName, Len(Chars("smart:"))))
    ELSE normalizedName

\* The least of a set of indexes: what a loop from the front finds first.
First(hits) == CHOOSE k \in hits : \A j \in hits : k <= j

SmartListHits(normalizedName, normalizedStrippedName) ==
    {k \in 1..Len(SMART_LISTS) :
        SmartListMatches(SMART_LISTS[k], normalizedName, normalizedStrippedName)}

FirstSmartList(hits) ==
    IF hits = {} THEN [found |-> FALSE, smartList |-> SMART_LISTS[1]]
    ELSE [found |-> TRUE, smartList |-> SMART_LISTS[First(hits)]]

SmartListNamed(normalizedName) ==
    FirstSmartList(SmartListHits(normalizedName, StrippedName(normalizedName)))

\* getSmartListByName: [found, smartList], the first definition that matches,
\* or found = FALSE for null.
getSmartListByName(listName) == SmartListNamed(normalizeListName(listName))

----------------------------------------------------------------------------
(* List resolver, over the store's lists                                   *)

RegularListHits(store, normalizedName) ==
    {k \in 1..Len(store) : normalizeListName(store[k].name) = normalizedName}

FirstOrNone(hits) == IF hits = {} THEN 0 ELSE First(hits)

\* getRegularListByName: the index of the first real list with that name
\* (lists.find), or 0.
getRegularListByName(store, listName) ==
    FirstOrNone(RegularListHits(store, normalizeListName(listName)))

ListNotFound(listName) == Chars("List \"") \o listName \o Chars("\" not found")

\* The resolution with the smart lists looked up first.
ResolvedList_SmartFirst(listName, regularList, smartList) ==
    IF smartList.found
      THEN Returns([kind |-> "smart", smartList |-> smartList.smartList])
    ELSE IF regularList # 0
      THEN Returns([kind |-> "regular", list |-> regularList])
    ELSE Throws(ListNotFound(listName))

ResolvedList(listName, regularList, smartList) ==
    IF regularList # 0
      THEN Returns([kind |-> "regular", list |-> regularList])
    ELSE IF smartList.found
      THEN Returns([kind |-> "smart", smartList |-> smartList.smartList])
    ELSE Throws(ListNotFound(listName))

\* resolveListByName: [kind |-> "regular", list] or [kind |-> "smart",
\* smartList], or the error.
resolveListByName(store, listName) ==
    ResolvedList(listName, getRegularListByName(store, listName),
                 getSmartListByName(listName))

----------------------------------------------------------------------------
(* The native store, as the binding shows it. A list is [id, name, items]; *)
(* an item is a row [id, name, body, completed, dueDate, flagged,          *)
(* priority] of JavaScript values. A call is what the layer asks of the    *)
(* store: createReminder, updateReminder or deleteReminder.                *)

ItemProps == {"id", "name", "body", "completed", "dueDate", "flagged", "priority"}

SMART_FILTER_PROPS == {"id", "name", "completed", "dueDate", "flagged"}

\* reminders.getReminders returns the requested properties of each item.
Project(item, props) ==
    [k \in ItemProps |-> IF k \in props THEN item[k] ELSE JUndef]

mergeReminderProps(a, b) == a \cup b

ListWithId(store, listId) == CHOOSE k \in 1..Len(store) : store[k].id = listId

fetchRemindersByListId(store, listId, props) ==
    LET items == store[ListWithId(store, listId)].items
    IN [i \in 1..Len(items) |-> Project(items[i], props)]

\* The merge loop in which a later row replaces the row kept for its identifier.
RECURSIVE MergeItems_LastWins(_, _, _)
MergeItems_LastWins(rows, seenIds, allItems) ==
    IF rows = <<>> THEN allItems
    ELSE LET item == Head(rows)
         IN IF item.id.t = "string" /\ item.id.s \in seenIds
              THEN MergeItems_LastWins(Tail(rows), seenIds,
                       [i \in 1..Len(allItems) |->
                           IF allItems[i].id = item.id THEN item ELSE allItems[i]])
            ELSE IF item.id.t = "string"
              THEN MergeItems_LastWins(Tail(rows), seenIds \cup {item.id.s},
                                       Append(allItems, item))
            ELSE MergeItems_LastWins(Tail(rows), seenIds, Append(allItems, item))

\* The merge loop of fetchAllReminders over the rows still to visit.
RECURSIVE MergeItems(_, _, _)
MergeItems(rows, seenIds, allItems) ==
    IF rows = <<>> THEN allItems
    ELSE LET item == Head(rows)
         IN IF item.id.t = "string" /\ item.id.s \in seenIds
              THEN MergeItems(Tail(rows), seenIds, allItems)
            ELSE IF item.id.t = "string"
              THEN MergeItems(Tail(rows), seenIds \cup {item.id.s}, Append(allItems, item))
            ELSE MergeItems(Tail(rows), seenIds, Append(allItems, item))

\* The rows of every list, list after list in enumeration order.
RECURSIVE RowsOfLists(_, _, _)
RowsOfLists(store, k, props) ==
    IF k > Len(store) THEN <<>>
    ELSE fetchRemindersByListId(store, store[k].id, props)
         \o RowsOfLists(store, k + 1, props)

fetchAllReminders(store, props) ==
    LET mergedProps == mergeReminderProps(props, SMART_FILTER_PROPS)
    IN MergeItems(RowsOfLists(store, 1, mergedProps), {}, <<>>)

\* The union as it is, whatever the predicate.
FilterItems_Unfiltered(items, smartList, clock) == items

\* items.filter(keep)
RECURSIVE FilterItems(_, _, _)
FilterItems(items, smartList, clock) ==
    IF items = <<>> THEN <<>>
    ELSE (IF Predicate(smartList, Head(items), clock) THEN <<Head(items)>> ELSE <<>>)
         \o FilterItems(Tail(items), smartList, clock)

FetchResolved(store, props, clock, resolvedList) ==
    IF ~resolvedList.ok THEN resolvedList
    ELSE IF resolvedList.v.kind = "regular"
      THEN Returns(fetchRemindersByListId(store, store[resolvedList.v.list].id, props))
    ELSE Returns(FilterItems(
             fetchAllReminders(store, mergeReminderProps(props, SMART_FILTER_PROPS)),
             resolvedList.v.smartList, clock))

\* fetchRemindersForList: the rows, or the error of the resolution.
fetchRemindersForList(store, listName, props, clock) ==
    FetchResolved(store, props, clock, resolveListByName(store, listName))

\* The comparison of names that ignores case.
NamedHits_IgnoringCase(reminderItems, reminderName) ==
    {i \in 1..Len(reminderItems) :
        /\ reminderItems[i].name.t = "string"
        /\ ToLowerCase(reminderItems[i].name.s) = ToLowerCase(reminderName)
        /\ reminderItems[i].id.t = "string"}

\* item.name === reminderName && typeof item.id === "string"
NamedHits(reminderItems, reminderName) ==
    {i \in 1..Len(reminderItems) :
        /\ reminderItems[i].name.t = "string"
        /\ reminderItems[i].name.s = reminderName
        /\ reminderItems[i].id.t = "string"}

\* The lookup that takes the last row with the name.
FoundReminder_Last(reminderItems, hits) ==
    IF hits = {} THEN [found |-> FALSE]
    ELSE [found |-> TRUE,
          item |-> reminderItems[CHOOSE i \in hits : \A j \in hits : j <= i]]

FoundReminder(reminderItems, hits) ==
    IF hits = {} THEN [found |-> FALSE]
    ELSE [found |-> TRUE, item |-> reminderItems[First(hits)]]

FindReminder(reminderItems, reminderName) ==
    IF ~reminderItems.ok THEN reminderItems
    ELSE Returns(FoundReminder(reminderItems.v, NamedHits(reminderItems.v, reminderName)))

\* getReminderByName: [found, item], the first row with that name and a
\* string identifier, or the error of the resolution.
getReminderByName(store, listName, reminderName, properties, clock) ==
    FindReminder(fetchRemindersForList(
                     store, listName, mergeReminderProps(properties, {"id", "name"}), clock),
                 reminderName)

----------------------------------------------------------------------------
(* Record operations: each is [ret, calls], what the operation returns or  *)
(* throws and the calls it issued to the store, in order.                  *)

Outcome(r, c) == [ret |-> r, calls |-> c]

\* getRemindersLists
getRemindersLists(store) ==
    Outcome(Returns([k \in 1..Len(store) |-> store[k].name]
                    \o [k \in 1..Len(SMART_LISTS) |->
                            smartListDisplayName(SMART_LISTS[k].name)]),
            <<>>)

\* The record made of a row and the parts of its body.
RecordOf(item, bodyParts) ==
    LET tags == Get(bodyParts.metadata, kTags)
        location == Get(bodyParts.metadata, kLocation)
    IN [name |-> IF item.name.t \in {"undefined", "null"} THEN <<>> ELSE item.name.s,
        completed |-> isCompleted(item),
        dueDate |-> formatDate(item.dueDate),
        flagged |-> isFlagged(item),
        priority |-> IF item.priority.t \in {"undefined", "null"} THEN 0
                     ELSE item.priority.n,
        notes |-> bodyParts.notes,
        tags |-> IF tags.t \in {"undefined", "null"} THEN JArr(<<>>) ELSE tags,
        location |-> IF location.t \in {"undefined", "null"} THEN JNull ELSE location]

\* The record getRemindersFromList makes of a row.
ReminderRecord(item) == RecordOf(item, parseReminderBody(item.body))

RecordsOf(listName, reminderItems) ==
    IF ~reminderItems.ok
    THEN Outcome(Throws(Chars("Failed to get reminders from list \"") \o listName
                        \o Chars("\": ") \o reminderItems.e), <<>>)
    ELSE Outcome(Returns([i \in 1..Len(reminderItems.v) |->
                             ReminderRecord(reminderItems.v[i])]), <<>>)

\* getRemindersFromList
getRemindersFromList(store, listName, clock) ==
    RecordsOf(listName,
              fetchRemindersForList(
                  store, listName,
                  {"name", "completed", "dueDate", "priority", "body", "flagged"}, clock))

\* The primary weight of a character in the collation: a letter by its place
\* in the alphabet whatever its case, any other character before the letters.
CollationWeight(c) ==
    IF LowerChar(c) \in Range(Lower) THEN Len(Printable) + IndexIn(Lower, LowerChar(c))
    ELSE IF c \in Range(Printable) THEN IndexIn(Printable, c)
    ELSE 0

\* The comparison of the letters alone: -1, 0 or 1.
RECURSIVE ComparePrimary(_, _)
ComparePrimary(a, b) ==
    IF a = <<>> THEN (IF b = <<>> THEN 0 ELSE -1)
    ELSE IF b = <<>> THEN 1
    ELSE IF CollationWeight(Head(a)) < CollationWeight(Head(b)) THEN -1
    ELSE IF CollationWeight(Head(a)) > CollationWeight(Head(b)) THEN 1
    ELSE ComparePrimary(Tail(a), Tail(b))

\* The comparison of the case of strings with the same letters: at the first
\* difference the lower-case letter comes first.
RECURSIVE CompareCase(_, _)
CompareCase(a, b) ==
    IF a = <<>> \/ b = <<>> THEN 0
    ELSE IF Head(a) = Head(b) THEN CompareCase(Tail(a), Tail(b))
    ELSE IF Head(a) \in Range(Lower) THEN -1 ELSE 1

CompareLevels(a, b, primary) == IF primary # 0 THEN primary ELSE CompareCase(a, b)

\* a.localeCompare(b) on strings of printable ASCII characters.
localeCompare(a, b) == CompareLevels(a, b, ComparePrimary(a, b))

\* The place of a value in an array sorted by localeCompare: after the
\* values that compare equal to it, the sort being stable.
RECURSIVE InsertSorted(_, _)
InsertSorted(sorted, value) ==
    IF sorted = <<>> THEN <<value>>
    ELSE IF localeCompare(value, Head(sorted)) < 0 THEN <<value>> \o sorted
    ELSE <<Head(sorted)>> \o InsertSorted(Tail(sorted), value)

\* values.sort((a, b) => a.localeCompare(b))
RECURSIVE SortValues(_, _)
SortValues(values, sorted) ==
    IF values = <<>> THEN sorted
    ELSE SortValues(Tail(values), InsertSorted(sorted, Head(values)))

\* The inner loop of getTags with the Map keyed by the tag as written.
RECURSIVE CollectTags_CaseSensitive(_, _)
CollectTags_CaseSensitive(reminderTags, tags) ==
    IF reminderTags = <<>> THEN tags
    ELSE IF \E i \in 1..Len(tags) : tags[i] = Head(reminderTags).s
      THEN CollectTags_CaseSensitive(Tail(reminderTags), tags)
    ELSE CollectTags_CaseSensitive(Tail(reminderTags), Append(tags, Head(reminderTags).s))

\* The inner loop of getTags over the tags of one row: the Map's values so
\* far are in tags, in insertion order.
RECURSIVE CollectTags(_, _)
CollectTags(reminderTags, tags) ==
    IF reminderTags = <<>> THEN tags
    ELSE IF HasKey(tags, ToLowerCase(Head(reminderTags).s))
      THEN CollectTags(Tail(reminderTags), tags)
    ELSE CollectTags(Tail(reminderTags), Append(tags, Head(reminderTags).s))

\* parsed.metadata.tags ?? []
ReminderTags(parsed) ==
    LET tags == Get(parsed.metadata, kTags)
    IN IF tags.t \in {"undefined", "null"} THEN <<>> ELSE tags.a

\* The outer loop of getTags over the rows.
RECURSIVE TagsOfItems(_, _)
TagsOfItems(reminderItems, tags) ==
    IF reminderItems = <<>> THEN tags
    ELSE TagsOfItems(Tail(reminderItems),
                     CollectTags(ReminderTags(parseReminderBody(Head(reminderItems).body)),
                                 tags))

SortedTags(reminderItems) ==
    IF ~reminderItems.ok
    THEN Outcome(Throws(Chars("Failed to get tags: ") \o reminderItems.e), <<>>)
    ELSE Outcome(Returns(SortValues(TagsOfItems(reminderItems.v, <<>>), <<>>)), <<>>)

\* getTags: listName is the argument as passed, undefined when there is none.
getTags(store, listName, clock) ==
    SortedTags(IF Falsy(listName)
               THEN Returns(fetchAllReminders(store, {"name", "body"}))
               ELSE fetchRemindersForList(store, listName.s, {"name", "body"}, clock))

CannotCreateInSmartList(listName) ==
    Chars("Cannot create reminders in smart list \"") \o listName
    \o Chars("\". Select a regular reminder list.")

CreateFailed(message) == Chars("Failed to create reminder: ") \o message

\* The payload of the create call: a property that is not set is undefined.
ReminderCreatePayload(title, dueDate, body, flagged, priority) ==
    [name |-> title, dueDate |-> dueDate, body |-> body,
     flagged |-> IF flagged.t = "boolean" THEN flagged ELSE JUndef,
     priority |-> IF priority.t = "number" THEN priority ELSE JUndef]

\* reminders.createReminder(resolvedList.list.id, reminderData)
CreateComposed(listId, title, dueDate, flagged, priority, reminderBody) ==
    IF ~reminderBody.ok THEN Outcome(Throws(CreateFailed(Chars(reminderBody.e))), <<>>)
    ELSE Outcome(Returns(TRUE),
                 <<[fn |-> "createReminder",
                    listId |-> listId,
                    data |-> ReminderCreatePayload(JStr(title), dueDate, reminderBody.v,
                                                   flagged, priority)]>>)

\* composeReminderBody(notes, {tags: normalizeTags(tags), location: ... ?? undefined})
CreateTagged(listId, title, dueDate, notes, flagged, priority, location, normalizedTags) ==
    IF ~normalizedTags.ok
      THEN Outcome(Throws(CreateFailed(Chars(normalizedTags.e))), <<>>)
    ELSE CreateComposed(listId, title, dueDate, flagged, priority,
             composeReminderBody(notes,
                 JObj(<<<<kTags, normalizedTags.v>>,
                        <<kLocation, IF location.t = "null" THEN JUndef ELSE location>>>>)))

\* After parseDueDate and normalizeLocation(location, true).
CreateChecked(listId, title, notes, flagged, priority, tags, parsedDate, normalizedLocation) ==
    IF ~parsedDate.ok THEN Outcome(Throws(CreateFailed(parsedDate.e)), <<>>)
    ELSE IF ~normalizedLocation.ok
      THEN Outcome(Throws(CreateFailed(Chars(normalizedLocation.e))), <<>>)
    ELSE CreateTagged(listId, title, parsedDate.v, notes, flagged, priority,
                      normalizedLocation.v, normalizeTags(tags))

\* The creation that puts a reminder for a smart list into the first list.
CreateResolved_IntoFirstList(store, listName, title, dueDate, notes, flagged, priority, tags, location, resolvedList) ==
    IF ~resolvedList.ok THEN Outcome(Throws(CreateFailed(resolvedList.e)), <<>>)
    ELSE CreateChecked(IF resolvedList.v.kind # "regular" THEN store[1].id
                       ELSE store[resolvedList.v.list].id,
                       title, notes, flagged, priority, tags,
                       IF Falsy(dueDate) THEN Returns(JUndef) ELSE parseDueDate(dueDate.s),
                       normalizeLocation(location, TRUE))

\* After resolveListByName: a smart list is refused before anything else.
CreateResolved(store, listName, title, dueDate, notes, flagged, priority, tags, location, resolvedList) ==
    IF ~resolvedList.ok THEN Outcome(Throws(CreateFailed(resolvedList.e)), <<>>)
    ELSE IF resolvedList.v.kind # "regular"
      THEN Outcome(Throws(CreateFailed(CannotCreateInSmartList(listName))), <<>>)
    ELSE CreateChecked(store[resolvedList.v.list].id, title, notes, flagged, priority,
                       tags,
                       IF Falsy(dueDate) THEN Returns(JUndef) ELSE parseDueDate(dueDate.s),
                       normalizeLocation(location, TRUE))

\* createReminder
createReminder(store, listName, title, dueDate, notes, flagged, priority, tags, location) ==
    CreateResolved(store, listName, title, dueDate, notes, flagged, priority, tags,
                   location, resolveListByName(store, listName))

SetAttributesFailed(message) == Chars("Failed to set reminder attributes: ") \o message

\* nextMetadata.tags after the branch on attributes.tags.
MergedTags(props, tags, normalizedTags) ==
    IF tags.t = "undefined" THEN props
    ELSE IF Len(normalizedTags.v.a) > 0 THEN SetProp(props, kTags, normalizedTags.v)
    ELSE DeleteProp(props, kTags)

\* nextMetadata.location after the branch on attributes.location.
MergedLocation(props, location, normalizedLocation) ==
    IF location.t = "undefined" THEN props
    ELSE IF ~Falsy(normalizedLocation.v)
      THEN SetProp(props, kLocation, normalizedLocation.v)
    ELSE DeleteProp(props, kLocation)

MergeSupplied(props, tags, normalizedTags, location, normalizedLocation) ==
    IF tags.t # "undefined" /\ ~normalizedTags.ok THEN normalizedTags
    ELSE IF location.t # "undefined" /\ ~normalizedLocation.ok THEN normalizedLocation
    ELSE Returns(JObj(MergedLocation(MergedTags(props, tags, normalizedTags),
                                     location, normalizedLocation)))

\* The metadata setReminderAttributes encodes: the decoded metadata with the
\* supplied tags and location merged over it.
NextMetadata(metadata, attributes) ==
    MergeSupplied(metadata.props,
                  Get(attributes, kTags), normalizeTags(Get(attributes, kTags)),
                  Get(attributes, kLocation),
                  IF Get(attributes, kLocation).t = "null" THEN Returns(JNull)
                  ELSE normalizeLocation(Get(attributes, kLocation), TRUE))

\* updatePayload.flagged and updatePayload.priority
NativePayload(attributes) ==
    LET flagged == Get(attributes, kFlagged)
        priority == Get(attributes, kPriority)
    IN (IF flagged.t = "boolean" THEN "flagged" :> flagged ELSE <<>>)
       @@ (IF priority.t = "number" THEN "priority" :> priority ELSE <<>>)

\* The body composed of the metadata alone.
UpdatedBody_MetadataOnly(bodyParts, nextMetadata) ==
    IF ~nextMetadata.ok THEN nextMetadata
    ELSE composeReminderBody(JUndef, nextMetadata.v)

\* composeReminderBody(bodyParts.notes ?? undefined, nextMetadata)
UpdatedBody(bodyParts, nextMetadata) ==
    IF ~nextMetadata.ok THEN nextMetadata
    ELSE composeReminderBody(
             IF bodyParts.notes.t = "null" THEN JUndef ELSE bodyParts.notes,
             nextMetadata.v)

MergedBody(bodyParts, attributes) ==
    UpdatedBody(bodyParts, NextMetadata(bodyParts.metadata, attributes))

\* updatePayload.body = updatedBody ?? ""
BodyPayload(payload, updatedBody) ==
    IF ~updatedBody.ok THEN updatedBody
    ELSE Returns(payload @@ ("body" :> IF updatedBody.v.t = "undefined" THEN JStr(<<>>)
                                       ELSE updatedBody.v))

\* The payload that carries the body whatever was supplied.
UpdatePayload_AlwaysBody(item, attributes) ==
    BodyPayload(NativePayload(attributes),
                MergedBody(parseReminderBody(item.body), attributes))

\* The payload of the update call, a function of the fields it sets.
UpdatePayload(item, attributes) ==
    IF Get(attributes, kTags).t = "undefined" /\ Get(attributes, kLocation).t = "undefined"
    THEN Returns(NativePayload(attributes))
    ELSE BodyPayload(NativePayload(attributes),
                     MergedBody(parseReminderBody(item.body), attributes))

\* reminders.updateReminder(targetReminder.id, updatePayload), unless empty.
IssueUpdate(id, updatePayload) ==
    IF ~updatePayload.ok
      THEN Outcome(Throws(SetAttributesFailed(Chars(updatePayload.e))), <<>>)
    ELSE IF DOMAIN updatePayload.v = {} THEN Outcome(Returns(TRUE), <<>>)
    ELSE Outcome(Returns(TRUE),
                 <<[fn |-> "updateReminder", id |-> id, data |-> updatePayload.v]>>)

SetOnTarget(attributes, targetReminder) ==
    IF ~targetReminder.ok
      THEN Outcome(Throws(SetAttributesFailed(targetReminder.e)), <<>>)
    ELSE IF ~targetReminder.v.found THEN Outcome(Returns(FALSE), <<>>)
    ELSE IssueUpdate(targetReminder.v.item.id.s,
                     UpdatePayload(targetReminder.v.item, attributes))

\* setReminderAttributes
setReminderAttributes(store, listName, reminderName, attributes, clock) ==
    SetOnTarget(attributes,
                getReminderByName(store, listName, reminderName,
                                  {"name", "id", "body"}, clock))

CompleteTarget(targetReminder) ==
    IF ~targetReminder.ok
      THEN Outcome(Throws(Chars("Failed to complete reminder: ") \o targetReminder.e), <<>>)
    ELSE IF ~targetReminder.v.found THEN Outcome(Returns(FALSE), <<>>)
    ELSE Outcome(Returns(TRUE),
                 <<[fn |-> "updateReminder",
                    id |-> targetReminder.v.item.id.s,
                    data |-> ("completed" :> JBool(TRUE))]>>)

\* completeReminder
completeReminder(store, listName, reminderName, clock) ==
    CompleteTarget(getReminderByName(store, listName, reminderName, {"name", "id"}, clock))

DeleteTarget(targetReminder) ==
    IF ~targetReminder.ok
      THEN Outcome(Throws(Chars("Failed to delete reminder: ") \o targetReminder.e), <<>>)
    ELSE IF ~targetReminder.v.found THEN Outcome(Returns(FALSE), <<>>)
    ELSE Outcome(Returns(TRUE),
                 <<[fn |-> "deleteReminder", id |-> targetReminder.v.item.id.s]>>)

\* deleteReminder
deleteReminder(store, listName, reminderName, clock) ==
    DeleteTarget(getReminderByName(store, listName, reminderName, {"name", "id"}, clock))

----------------------------------------------------------------------------
(* Tool handlers: each is [ret, calls], the response the handler returns   *)
(* for the outcome of the operation it awaited, and the calls of that      *)
(* operation. The errors the operations throw are Errors, held by message. *)

kError == Chars("error")
kDetails == Chars("details")
kSuccess == Chars("success")
kMessage == Chars("message")

TextContent(text) == <<[type |-> "text", text |-> text]>>

errorMessage(error) == error

successResponse(payload) ==
    [content |-> TextContent(Stringify(payload)), isError |-> JUndef]

\* The failure response without its flag.
failureResponse_Unflagged(message, error) ==
    [content |-> TextContent(Stringify(JObj(<<<<kError, JStr(message)>>,
                                              <<kDetails, JStr(errorMessage(error))>>>>))),
     isError |-> JUndef]

failureResponse(message, error) ==
    [content |-> TextContent(Stringify(JObj(<<<<kError, JStr(message)>>,
                                              <<kDetails, JStr(errorMessage(error))>>>>))),
     isError |-> JBool(TRUE)]

\* An array of strings as a value.
StringArray(strings) == JArr([i \in 1..Len(strings) |-> JStr(strings[i])])

TwoDigits(n) == <<Digits[((n \div 10) % 10) + 1], Digits[(n % 10) + 1]>>

\* Date.prototype.toISOString for the instants of the model.
toISOString(date) ==
    Chars("1970-01-") \o TwoDigits(DayOf(date.time) + 1) \o Chars("T")
    \o TwoDigits(((date.time % TicksPerDay) * 24) \div TicksPerDay)
    \o Chars(":00:00.000Z")

\* A ReminderRecord as the value JSON.stringify is given.
RecordValue(record) ==
    JObj(<<<<Chars("name"), JStr(record.name)>>,
           <<Chars("completed"), JBool(record.completed)>>,
           <<Chars("dueDate"), IF record.dueDate.t = "null" THEN JNull
                               ELSE JStr(toISOString(record.dueDate))>>,
           <<kFlagged, JBool(record.flagged)>>,
           <<kPriority, JNum(record.priority)>>,
           <<Chars("notes"), record.notes>>,
           <<kTags, record.tags>>,
           <<kLocation, record.location>>>>)

\* The response of a handler whose operation returns whether it succeeded.
SuccessOrNot(outcome, done, notDone, failure) ==
    Outcome(IF outcome.ret.ok
            THEN successResponse(JObj(<<<<kSuccess, JBool(outcome.ret.v)>>,
                                        <<kMessage, JStr(IF outcome.ret.v THEN done
                                                         ELSE notDone)>>>>))
            ELSE failureResponse(failure, outcome.ret.e),
            outcome.calls)

getListsTool(outcome) ==
    Outcome(IF outcome.ret.ok
            THEN successResponse(JObj(<<<<Chars("lists"), StringArray(outcome.ret.v)>>>>))
            ELSE failureResponse(Chars("Failed to get reminder lists"), outcome.ret.e),
            outcome.calls)

getRemindersTool(listName, outcome) ==
    Outcome(IF outcome.ret.ok
            THEN successResponse(JObj(<<<<Chars("reminders"),
                     JArr([i \in 1..Len(outcome.ret.v) |-> RecordValue(outcome.ret.v[i])])>>>>))
            ELSE failureResponse(Chars("Failed to get reminders from list: ") \o listName,
                                 outcome.ret.e),
            outcome.calls)

createReminderTool(outcome) ==
    SuccessOrNot(outcome, Chars("Reminder created"), Chars("Failed to create reminder"),
                 Chars("Failed to create reminder"))

getTagsTool(outcome) ==
    Outcome(IF outcome.ret.ok
            THEN successResponse(JObj(<<<<kTags, StringArray(outcome.ret.v)>>>>))
            ELSE failureResponse(Chars("Failed to get tags"), outcome.ret.e),
            outcome.calls)

setReminderAttributesTool(outcome) ==
    SuccessOrNot(outcome, Chars("Reminder attributes updated"), Chars("Reminder not found"),
                 Chars("Failed to set reminder attributes"))

completeReminderTool(outcome) ==
    SuccessOrNot(outcome, Chars("Reminder marked as completed"), Chars("Reminder not found"),
                 Chars("Failed to complete reminder"))

deleteReminderTool(outcome) ==
    SuccessOrNot(outcome, Chars("Reminder deleted"), Chars("Reminder not found"),
                 Chars("Failed to delete reminder"))

----------------------------------------------------------------------------
(* What the store does with a call                                         *)

\* The row a create call makes: what the payload leaves out reads back as
\* not completed, no due date, no body, not flagged, priority 0.
CreatedItem(id, data) ==
    [id |-> JStr(NumberToString(id)),
     name |-> data.name,
     body |-> IF data.body.t = "undefined" THEN JNull ELSE data.body,
     completed |-> JBool(FALSE),
     dueDate |-> IF data.dueDate.t = "undefined" THEN JNull ELSE data.dueDate,
     flagged |-> IF data.flagged.t = "undefined" THEN JBool(FALSE) ELSE data.flagged,
     priority |-> IF data.priority.t = "undefined" THEN JNum(0) ELSE data.priority]

UpdatedItem(item, data) ==
    [k \in ItemProps |-> IF k \in DOMAIN data THEN data[k] ELSE item[k]]

RECURSIVE WithoutId(_, _)
WithoutId(items, id) ==
    IF items = <<>> THEN <<>>
    ELSE (IF Head(items).id.t = "string" /\ Head(items).id.s = id THEN <<>>
          ELSE <<Head(items)>>)
         \o WithoutId(Tail(items), id)

\* The store after one call; id is the identifier a create hands out.
StoreAfter(store, call, id) ==
    CASE call.fn = "createReminder" ->
            [k \in 1..Len(store) |->
                IF store[k].id = call.listId
                THEN [store[k] EXCEPT !.items = Append(@, CreatedItem(id, call.data))]
                ELSE store[k]]
      [] call.fn = "updateReminder" ->
            [k \in 1..Len(store) |->
                [store[k] EXCEPT !.items =
                    [i \in 1..Len(@) |->
                        IF @[i].id.t = "string" /\ @[i].id.s = call.id
                        THEN UpdatedItem(@[i], call.data) ELSE @[i]]]]
      [] call.fn = "deleteReminder" ->
            [k \in 1..Len(store) |->
                [store[k] EXCEPT !.items = WithoutId(@, call.id)]]

\* The operations issue at most one call.
StoreAfterCalls(store, issued, id) ==
    IF issued = <<>> THEN store ELSE StoreAfter(store, issued[1], id)

----------------------------------------------------------------------------
(* Values the operations are called with                                   *)

Str(text) == JStr(Chars(text))
TagList(texts) == JArr([i \in 1..Len(texts) |-> Str(texts[i])])

\* A location from the fields it has, in the order written.
Location(fields) == JObj(fields)

HomeLocation ==
    Location(<<<<kTitle, Str(" Home ")>>, <<kLatitude, JNum(37)>>,
               <<kLongitude, JNum(-122)>>, <<kRadiusMeters, JNum(50)>>,
               <<kProximity, Str("arriving")>>>>)

\* A body that is a marker and nothing else: notes that are sentinel text.
SentinelNotes == JStr(METADATA_PREFIX \o Chars("e30") \o METADATA_SUFFIX)

HasSentinel(notes) == notes.t = "string" /\ Includes(notes.s, METADATA_PREFIX)

\* Notes that end in a marker of their own, whose token carries a location.
LocatedNotes ==
    JStr(Chars("x\n\n") \o METADATA_PREFIX
         \o Base64UrlEncode(Utf8Bytes(Stringify(
                JObj(<<<<kLocation, JObj(<<<<kTitle, JStr(Chars("y"))>>>>)>>>>))))
         \o METADATA_SUFFIX)

NotesValues ==
    {JUndef, Str(""), Str("a"), Str("a "), Str(" "), Str(" a\nb"), Str("a\n\n"),
     SentinelNotes, LocatedNotes}

TagsValues ==
    {JUndef, TagList(<<>>), TagList(<<"work">>), TagList(<<"work", "Work", "#urgent">>),
     TagList(<<" a ", "#">>), TagList(<<"# a">>), TagList(<<"b", "# # # a">>)}

LocationValues ==
    {JUndef, HomeLocation, Location(<<>>),
     Location(<<<<kTitle, Str("x")>>>>),
     Location(<<<<kTitle, Str(" ")>>>>),
     Location(<<<<kLatitude, JNum(-90)>>, <<kLongitude, JNum(180)>>>>),
     Location(<<<<kLatitude, JNum(95)>>>>),
     Location(<<<<kLatitude, JNum(10)>>, <<kRadiusMeters, JNum(0)>>>>),
     Location(<<<<kProximity, Str("near")>>, <<kTitle, Str("x")>>>>)}

\* The characters tokens are corrupted with, and the longest corrupted token.
CorruptTokenChars == {"M", "Q", "e", "3", "0", "_"}
MaxCorruptToken == 3

\* The token this layer writes for tags ["a"], cut short by one character
\* and by four.
WrittenToken == Base64UrlEncode(Utf8Bytes(Chars("{\"tags\":[\"a\"]}")))
CutTokens ==
    {SubSeq(WrittenToken, 1, Len(WrittenToken) - 1),
     SubSeq(WrittenToken, 1, Len(WrittenToken) - 4)}

StoredTokens == StringsUpTo(CorruptTokenChars, MaxCorruptToken) \cup CutTokens

\* A body with hand-written text where this layer writes a token.
MarkedBody(notes, token, tail) ==
    JStr(notes \o METADATA_PREFIX \o token \o METADATA_SUFFIX \o tail)

\* Bodies without a trailing marker.
UnmarkedBodies ==
    {JNull, Str(""), Str("plain notes ]]"), Str("[[mcp-reminder-meta:e30]] x")}

----------------------------------------------------------------------------
(* The codec on its own. A run starts from the arguments of one call of    *)
(* composeReminderBody, composes the body and parses it back, or starts    *)
(* from a body found in the store and parses it.                           *)

CodecIdle ==
    /\ lists = <<>>
    /\ now = 0
    /\ nextId = 1
    /\ steps = 0
    /\ calls = <<>>

CodecInit ==
    /\ CodecIdle
    /\ ret = Returns(JUndef)
    /\ \/ \E notes \in NotesValues, tags \in TagsValues, location \in LocationValues :
            op = [name |-> "arguments", composed |-> TRUE, marked |-> FALSE,
                  body |-> JUndef, token |-> <<>>,
                  notes |-> notes, tags |-> tags, location |-> location]
       \/ \E notes \in {Chars(""), Chars("x\n\n")}, token \in StoredTokens,
             tail \in {Chars(""), Chars("\n")} :
            op = [name |-> "stored", composed |-> FALSE, marked |-> token # <<>>,
                  body |-> MarkedBody(notes, token, tail), token |-> token,
                  notes |-> JStr(notes), tags |-> JUndef, location |-> JUndef]
       \/ \E body \in UnmarkedBodies :
            op = [name |-> "stored", composed |-> FALSE, marked |-> FALSE,
                  body |-> body, token |-> <<>>,
                  notes |-> body, tags |-> JUndef, location |-> JUndef]

CodecCompose ==
    /\ op.name = "arguments"
    /\ op' = [op EXCEPT !.name = "composeReminderBody"]
    /\ ret' = composeReminderBody(
                  op.notes, JObj(<<<<kTags, op.tags>>, <<kLocation, op.location>>>>))
    /\ UNCHANGED <<lists, now, nextId, steps, calls>>

CodecParseComposed ==
    /\ op.name = "composeReminderBody"
    /\ ret.ok
    /\ op' = [op EXCEPT !.name = "parseReminderBody", !.body = ret.v]
    /\ ret' = parseReminderBody(ret.v)
    /\ UNCHANGED <<lists, now, nextId, steps, calls>>

CodecParseStored ==
    /\ op.name = "stored"
    /\ op' = [op EXCEPT !.name = "parseReminderBody"]
    /\ ret' = parseReminderBody(op.body)
    /\ UNCHANGED <<lists, now, nextId, steps, calls>>

CodecNext == CodecCompose \/ CodecParseComposed \/ CodecParseStored

SpecCodec == CodecInit /\ [][CodecNext]_vars

\* The tags and the location of decoded parts as a record reports them:
\* no tags is the empty list, no location is null.
RecoveredTags(parts) ==
    LET tags == Get(parts.metadata, kTags)
    IN IF tags.t \in {"undefined", "null"} THEN JArr(<<>>) ELSE tags

RecoveredLocation(parts) ==
    LET location == Get(parts.metadata, kLocation)
    IN IF location.t \in {"undefined", "null"} THEN JNull ELSE location

\* A body that was composed from notes without sentinel text and parsed back.
RoundTripped ==
    op.name = "parseReminderBody" /\ op.composed /\ ~HasSentinel(op.notes)

\* Whether the arguments leave something to encode, so that a marker is written.
MarkerWritten ==
    \/ normalizeTags(op.tags).v.a # <<>>
    \/ normalizeLocation(op.location, FALSE).v.t # "null"

\* C1 as stated: parsing a composed body returns the original notes (absent
\* when they were empty), and tags and location equal to normalizeTags(tags)
\* and normalizeLocation(location, lenient).
C1_RoundTripAsStated ==
    RoundTripped =>
        /\ ret.notes = (IF op.notes.t = "undefined" \/ op.notes.s = <<>> THEN JNull
                        ELSE op.notes)
        /\ RecoveredTags(ret) = normalizeTags(op.tags).v
        /\ RecoveredLocation(ret) = normalizeLocation(op.location, FALSE).v

\* C1 as amended: parsing a composed body returns no notes when the notes
\* were absent, empty or blank; the original notes when no marker was written;
\* the original notes without their trailing white space when a marker was
\* written; tags equal to normalizeTags applied to normalizeTags(tags), and
\* location equal to normalizeLocation(location, lenient).
C1_RoundTrip ==
    RoundTripped =>
        /\ ret.notes = (IF ~HasNotes(op.notes) THEN JNull
                        ELSE IF MarkerWritten THEN JStr(TrimEnd(op.notes.s))
                        ELSE op.notes)
        /\ RecoveredTags(ret) = normalizeTags(normalizeTags(op.tags).v).v
        /\ RecoveredLocation(ret) = normalizeLocation(op.location, FALSE).v

\* C1's case: notes that end in white space composed with tags that the
\* second normalization changes and with a location, and parsed back.
C1_Witness ==
    /\ RoundTripped
    /\ HasNotes(op.notes) /\ TrimEnd(op.notes.s) # op.notes.s
    /\ normalizeTags(op.tags).v # RecoveredTags(ret)
    /\ RecoveredLocation(ret).t = "object"

\* The token of a stored body does not decode to text that JSON.parse accepts.
Corrupted(token) == ~JsonParse(Utf8String(Base64UrlDecode(token))).ok

\* C8: for a stored body whose trailing marker token is corrupted,
\* parseReminderBody returns (it does not raise) the entire body as the
\* notes, marker text included, and empty metadata.
C8_CorruptedToken ==
    op.name = "parseReminderBody" /\ op.marked /\ Corrupted(op.token) =>
        /\ ret.notes = op.body
        /\ ret.metadata = JObj(<<>>)

\* C8's case: a body with notes before a corrupted token was parsed, and the
\* failure of the decoding was caught.
C8_Witness ==
    /\ op.name = "parseReminderBody" /\ op.marked /\ Corrupted(op.token)
    /\ op.notes.s # <<>>
    /\ ret.threw

----------------------------------------------------------------------------
(* The resolver on its own: a store of real lists with the names drawn, no *)
(* rows in them, and one call of resolveListByName.                        *)

MaxLists == 2

RealListNames ==
    {Chars("Work"), Chars("Today"), Chars(" TODAY "), Chars("planned"),
     Chars("Smart: Today"), Chars("Nonexistent List")}

RequestedNames ==
    {Chars("Smart: Today"), Chars("today"), Chars("SMART:TODAY"), Chars("Today"),
     Chars("Nonexistent List"), Chars("Smart: Nope"), Chars("smart:smart:today"),
     Chars(" Planned "), Chars("work")}

\* The real lists with the names given, identified by their place.
ListsNamed(names) ==
    [k \in 1..Len(names) |->
        [id |-> <<"L", k>>, name |-> names[k], items |-> <<>>]]

ResolveInit ==
    /\ \E names \in SeqsUpTo(RealListNames, MaxLists) : lists = ListsNamed(names)
    /\ \E listName \in RequestedNames : op = [name |-> "arguments", listName |-> listName]
    /\ ret = Returns(JUndef)
    /\ now = 0
    /\ nextId = 1
    /\ steps = 0
    /\ calls = <<>>

ResolveListByName ==
    /\ op.name = "arguments"
    /\ op' = [op EXCEPT !.name = "resolveListByName"]
    /\ ret' = resolveListByName(lists, op.listName)
    /\ UNCHANGED <<lists, now, nextId, steps, calls>>

ResolveNext == ResolveListByName

SpecResolve == ResolveInit /\ [][ResolveNext]_vars

\* A name as names are compared: trimmed, in lower case.
SameName(a, b) == ToLowerCase(Trim(a)) = ToLowerCase(Trim(b))

\* The real lists whose name is the requested one.
RealMatches == {k \in 1..Len(lists) : SameName(lists[k].name, op.listName)}

\* The names and aliases of the smart lists, and whether a requested name is
\* one of them, with or without the prefix "smart:".
SmartNames ==
    {ToLowerCase(d.name) : d \in Range(SMART_LISTS)}
    \cup UNION {{ToLowerCase(d.aliases[a]) : a \in 1..Len(d.aliases)} :
                  d \in Range(SMART_LISTS)}

NamesSmartList(listName) ==
    LET name == ToLowerCase(Trim(listName))
    IN \/ name \in SmartNames
       \/ StartsWith(name, Chars("smart:")) /\ Trim(SubSeq(name, 7, Len(name))) \in SmartNames

TodayNames == {Chars("Smart: Today"), Chars("today"), Chars("SMART:TODAY")}

TodayDefinition == CHOOSE d \in Range(SMART_LISTS) : d.name = Chars("Today")

\* C4: when no real list has the requested name, "Smart: Today", "today" and
\* "SMART:TODAY" all resolve to the Smart result holding the Today
\* definition, and a name that is neither a real list's nor a smart list's
\* name or alias fails with 'List "<name>" not found'.
C4_SmartResolution ==
    op.name = "resolveListByName" /\ RealMatches = {} =>
        /\ op.listName \in TodayNames =>
              ret = Returns([kind |-> "smart", smartList |-> TodayDefinition])
        /\ ~NamesSmartList(op.listName) =>
              ret = Throws(Chars("List \"") \o op.listName \o Chars("\" not found"))

\* C4's case: "SMART:TODAY" was resolved against real lists that do not have
\* that name.
C4_Witness ==
    /\ op.name = "resolveListByName" /\ RealMatches = {}
    /\ op.listName = Chars("SMART:TODAY")
    /\ Len(lists) = MaxLists
    /\ ret.ok

\* C5: whenever a real list has the requested name (compared trimmed and
\* without case), resolveListByName returns Regular for a list of that name,
\* even if the name is also a smart list's; Smart is returned only when no
\* real list matches.
C5_RealListsFirst ==
    op.name = "resolveListByName" =>
        /\ RealMatches # {} =>
              ret.ok /\ ret.v.kind = "regular" /\ ret.v.list \in RealMatches
        /\ ret.ok /\ ret.v.kind = "smart" => RealMatches = {}

\* C5's case: the requested name is a smart list's name and a real list has
\* it too.
C5_Witness ==
    /\ op.name = "resolveListByName"
    /\ RealMatches # {} /\ NamesSmartList(op.listName)
    /\ ret.v.kind = "regular"

----------------------------------------------------------------------------
(* The aggregation on its own: real lists whose rows carry identifiers     *)
(* that may repeat within a list and across lists, or no identifier, and   *)
(* one call of fetchAllReminders.                                          *)

MaxRows == 2

\* The identifiers rows are drawn with; a row may also have none.
RowIds == {JStr(<<"1">>), JStr(<<"2">>), JUndef}

\* A row of list k at place i: its name tells where it is from.
RowAt(k, i, id) ==
    [id |-> id, name |-> JStr(<<"L", k, "#", i>>), body |-> JNull,
     completed |-> JBool(FALSE), dueDate |-> JNull, flagged |-> JBool(FALSE),
     priority |-> JNum(0)]

\* The real lists whose rows have the identifiers given, list by list.
ListsWithIds(ids) ==
    [k \in 1..Len(ids) |->
        [id |-> <<"L", k>>, name |-> <<"L", k>>,
         items |-> [i \in 1..Len(ids[k]) |-> RowAt(k, i, ids[k][i])]]]

FetchInit ==
    /\ \E ids \in SeqsUpTo(SeqsUpTo(RowIds, MaxRows), MaxLists) :
          lists = ListsWithIds(ids)
    /\ \E props \in {{"name", "body"}, {"name", "id"}} :
          op = [name |-> "arguments", props |-> props]
    /\ ret = Returns(JUndef)
    /\ now = 0
    /\ nextId = 1
    /\ steps = 0
    /\ calls = <<>>

FetchAllReminders ==
    /\ op.name = "arguments"
    /\ op' = [op EXCEPT !.name = "fetchAllReminders"]
    /\ ret' = Returns(fetchAllReminders(lists, op.props))
    /\ UNCHANGED <<lists, now, nextId, steps, calls>>

FetchNext == FetchAllReminders

SpecFetch == FetchInit /\ [][FetchNext]_vars

\* The places <<k, i>> of the store where a row has the identifier id, and
\* the earliest of them in enumeration order.
PlacesOf(id) ==
    {place \in (1..Len(lists)) \X (1..MaxRows + 1) :
        /\ place[2] <= Len(lists[place[1]].items)
        /\ lists[place[1]].items[place[2]].id = id}

EarliestPlace(id) ==
    CHOOSE place \in PlacesOf(id) :
        \A other \in PlacesOf(id) :
            \/ place[1] < other[1]
            \/ place[1] = other[1] /\ place[2] <= other[2]

\* The identifiers that occur in the store.
StoredIds == {id \in RowIds : id.t = "string" /\ PlacesOf(id) # {}}

\* C3: the collection fetchAllReminders returns never contains two items
\* with the same native identifier, and of the rows that share an identifier
\* the one kept is the one of the earliest list in enumeration order.
C3_FirstOccurrenceWins ==
    op.name = "fetchAllReminders" =>
        /\ \A p, q \in 1..Len(ret.v) :
              ret.v[p].id.t = "string" /\ ret.v[p].id = ret.v[q].id => p = q
        /\ \A id \in StoredIds :
              \E p \in 1..Len(ret.v) :
                  /\ ret.v[p].id = id
                  /\ ret.v[p].name
                       = lists[EarliestPlace(id)[1]].items[EarliestPlace(id)[2]].name

\* C3's case: an identifier occurs in two real lists and the merge has run.
C3_Witness ==
    /\ op.name = "fetchAllReminders"
    /\ \E id \in StoredIds : \E a, b \in PlacesOf(id) : a[1] # b[1]
    /\ Len(ret.v) > 1

----------------------------------------------------------------------------
(* The smart lists over a store of three items: one open and due the day   *)
(* before, one open and due on the day of the query, one completed with a  *)
(* due date that has passed. The items lie in the real lists in any order  *)
(* and any division, and the clock reads any instant of the day.           *)

\* The day of the query and the instants of a day.
QueryDay == 2
InstantsOf(day) == (day * TicksPerDay)..(day * TicksPerDay + TicksPerDay - 1)

sYesterday == Chars("yesterday")
sToday == Chars("today")
sDone == Chars("done")

ScenarioItem(id, name, completed, due) ==
    [id |-> JStr(id), name |-> JStr(name), body |-> JNull,
     completed |-> JBool(completed), dueDate |-> JDate(due),
     flagged |-> JBool(FALSE), priority |-> JNum(0)]

\* The three items in every order.
ScenarioRows(dueYesterday, dueToday, dueDone) ==
    LET items == {ScenarioItem(<<"1">>, sYesterday, FALSE, dueYesterday),
                  ScenarioItem(<<"2">>, sToday, FALSE, dueToday),
                  ScenarioItem(<<"3">>, sDone, TRUE, dueDone)}
    IN {rows \in [1..3 -> items] : Range(rows) = items}

\* The rows divided between the real lists Work and Home after the first cut.
ScenarioStore(rows, cut) ==
    <<[id |-> <<"L", 1>>, name |-> Chars("Work"), items |-> SubSeq(rows, 1, cut)],
      [id |-> <<"L", 2>>, name |-> Chars("Home"), items |-> SubSeq(rows, cut + 1, 3)]>>

SmartQueries ==
    {Chars("Smart: Overdue"), Chars("Smart: Today"),
     Chars("Smart: Completed"), Chars("Smart: All")}

SmartInit ==
    /\ now \in InstantsOf(QueryDay)
    /\ \E dueYesterday \in InstantsOf(QueryDay - 1), dueToday \in InstantsOf(QueryDay),
          dueDone \in 1..(now - 1), cut \in 0..3 :
          \E rows \in ScenarioRows(dueYesterday, dueToday, dueDone) :
              lists = ScenarioStore(rows, cut)
    /\ \E listName \in SmartQueries : op = [name |-> "stored", listName |-> listName]
    /\ ret = Returns(JUndef)
    /\ nextId = 4
    /\ steps = 0
    /\ calls = <<>>

SmartGetRemindersFromList ==
    /\ op.name = "stored"
    /\ op' = [op EXCEPT !.name = "getRemindersFromList"]
    /\ ret' = getRemindersFromList(lists, op.listName, now).ret
    /\ UNCHANGED <<lists, now, nextId, steps, calls>>

SmartNext == SmartGetRemindersFromList

SpecSmart == SmartInit /\ [][SmartNext]_vars

\* The names of the records returned, and whether they are exactly `names`,
\* each once.
ReturnedNames == {ret.v[i].name : i \in 1..Len(ret.v)}
ReturnsExactly(names) ==
    ret.ok /\ ReturnedNames = names /\ Len(ret.v) = Cardinality(names)

\* The due instant of the stored item called `name`.
StoredDue(name) ==
    LET place == CHOOSE place \in (1..Len(lists)) \X (1..3) :
                     /\ place[2] <= Len(lists[place[1]].items)
                     /\ lists[place[1]].items[place[2]].name = JStr(name)
    IN lists[place[1]].items[place[2]].dueDate.time

Asked(listName) == op.name = "getRemindersFromList" /\ op.listName = Chars(listName)

\* C7 as stated: Overdue returns the yesterday item alone, Today the today
\* item alone, Completed the completed item alone, All the three.
C7_ScenarioAsStated ==
    /\ Asked("Smart: Overdue") => ReturnsExactly({sYesterday})
    /\ Asked("Smart: Today") => ReturnsExactly({sToday})
    /\ Asked("Smart: Completed") => ReturnsExactly({sDone})
    /\ Asked("Smart: All") => ReturnsExactly({sYesterday, sToday, sDone})

\* C7: Overdue returns the yesterday item, and with it the today item when
\* the instant it is due at is already before the clock; Today returns the
\* today item alone, Completed the completed item alone, All the three.
C7_Scenario ==
    /\ Asked("Smart: Overdue") =>
          ReturnsExactly({sYesterday}
                         \cup (IF StoredDue(sToday) < now THEN {sToday} ELSE {}))
    /\ Asked("Smart: Today") => ReturnsExactly({sToday})
    /\ Asked("Smart: Completed") => ReturnsExactly({sDone})
    /\ Asked("Smart: All") => ReturnsExactly({sYesterday, sToday, sDone})

\* C7's case: Overdue has been asked when the instant the today item is due
\* at has passed, and the completed item was due before the yesterday item.
C7_Witness ==
    /\ Asked("Smart: Overdue")
    /\ StoredDue(sToday) < now
    /\ StoredDue(sDone) < StoredDue(sYesterday)
    /\ ReturnsExactly({sYesterday, sToday})

----------------------------------------------------------------------------
(* Reading what the store holds. The list Work holds one row whose body    *)
(* was written by this layer, by another writer, or by hand; one call of   *)
(* getRemindersFromList reads it, through the list or through Smart: All.  *)

\* The token another writer makes of a payload.
TokenOf(payload) == Base64UrlEncode(Utf8Bytes(Stringify(payload)))

\* Locations that strict normalization refuses: a latitude, a longitude or a
\* radius out of range, an unknown proximity, one of latitude and longitude
\* without the other; alone and beside fields that are in order.
InvalidLocations ==
    {Location(<<<<kLatitude, JNum(95)>>>>),
     Location(<<<<kLatitude, JNum(-91)>>, <<kLongitude, JNum(10)>>>>),
     Location(<<<<kLatitude, JNum(10)>>, <<kLongitude, JNum(181)>>>>),
     Location(<<<<kLatitude, JNum(10)>>, <<kLongitude, JNum(10)>>,
                <<kRadiusMeters, JNum(0)>>>>),
     Location(<<<<kTitle, Str("x")>>, <<kRadiusMeters, JNum(-5)>>>>),
     Location(<<<<kProximity, Str("near")>>>>),
     Location(<<<<kTitle, Str("x")>>, <<kLatitude, JNum(10)>>>>),
     Location(<<<<kLongitude, JNum(10)>>>>)}

\* Payloads that are JSON but not a metadata object of the expected shape.
OddPayloads ==
    {JNum(1), JNull, Str("s"), JArr(<<JNum(1)>>),
     JObj(<<<<kTags, JNum(5)>>>>), JObj(<<<<kTags, JArr(<<JNum(1)>>)>>>>),
     JObj(<<<<kTags, Str("ab")>>>>), JObj(<<<<kLocation, Str("x")>>>>),
     JObj(<<<<kLocation, JNum(5)>>>>)}

\* The store with the one row in Work.
StoreWithBody(body) ==
    <<[id |-> <<"L", 1>>, name |-> Chars("Work"),
       items |-> <<[id |-> JStr(<<"1">>), name |-> Str("seed"), body |-> body,
                    completed |-> JBool(FALSE), dueDate |-> JNull,
                    flagged |-> JBool(FALSE), priority |-> JNum(0)]>>],
      [id |-> <<"L", 2>>, name |-> Chars("Home"), items |-> <<>>]>>

ReadInit ==
    /\ \E listName \in {Chars("Work"), Chars("Smart: All")} :
          \/ \E notes \in {Chars(""), Chars("n")}, tags \in {JUndef, TagList(<<"a">>)},
                location \in InvalidLocations \cup {JUndef, HomeLocation} :
                /\ lists = StoreWithBody(
                       MarkedBody(IF notes = <<>> THEN notes ELSE notes \o Chars("\n\n"),
                                  TokenOf(JObj(<<<<kTags, tags>>, <<kLocation, location>>>>)),
                                  <<>>))
                /\ op = [name |-> "stored", listName |-> listName, kind |-> "metadata",
                         notes |-> IF notes = <<>> THEN JNull ELSE JStr(notes),
                         tags |-> tags, location |-> location]
          \/ \E payload \in OddPayloads :
                /\ lists = StoreWithBody(MarkedBody(Chars("n\n\n"), TokenOf(payload), <<>>))
                /\ op = [name |-> "stored", listName |-> listName, kind |-> "payload",
                         notes |-> JUndef, tags |-> JUndef, location |-> JUndef]
          \/ \E token \in StoredTokens :
                /\ lists = StoreWithBody(MarkedBody(Chars("n\n\n"), token, <<>>))
                /\ op = [name |-> "stored", listName |-> listName, kind |-> "token",
                         notes |-> JUndef, tags |-> JUndef, location |-> JUndef]
          \/ \E body \in UnmarkedBodies :
                /\ lists = StoreWithBody(body)
                /\ op = [name |-> "stored", listName |-> listName, kind |-> "text",
                         notes |-> JUndef, tags |-> JUndef, location |-> JUndef]
    /\ ret = Returns(JUndef)
    /\ now = QueryDay * TicksPerDay
    /\ nextId = 2
    /\ steps = 0
    /\ calls = <<>>

ReadGetRemindersFromList ==
    /\ op.name = "stored"
    /\ op' = [op EXCEPT !.name = "getRemindersFromList"]
    /\ ret' = getRemindersFromList(lists, op.listName, now).ret
    /\ UNCHANGED <<lists, now, nextId, steps, calls>>

ReadNext == ReadGetRemindersFromList

SpecRead == ReadInit /\ [][ReadNext]_vars

\* The row was stored with a well-formed token whose location the strict
\* mode refuses, and has been read.
ReadInvalidLocation ==
    /\ op.name = "getRemindersFromList"
    /\ op.kind = "metadata"
    /\ ~normalizeLocation(op.location, TRUE).ok

\* The read returned the one record, with the notes and tags of the token.
ReadNotesAndTags ==
    /\ ret.ok
    /\ Len(ret.v) = 1
    /\ ret.v[1].notes = op.notes
    /\ ret.v[1].tags = (IF op.tags.t = "undefined" THEN JArr(<<>>) ELSE op.tags)

\* The fields of a location that are in order: a title that is not blank, a
\* latitude and a longitude in range when both are, a radius above 0, a
\* proximity that is arriving or leaving.
FieldsInOrder(location) ==
    LET kept(key) ==
            CASE key = kTitle -> Trim(Get(location, kTitle).s) # <<>>
              [] key = kLatitude -> /\ Get(location, kLatitude).n \in -90..90
                                    /\ HasProp(location.props, kLongitude)
                                    /\ Get(location, kLongitude).n \in -180..180
              [] key = kLongitude -> /\ Get(location, kLongitude).n \in -180..180
                                     /\ HasProp(location.props, kLatitude)
                                     /\ Get(location, kLatitude).n \in -90..90
              [] key = kRadiusMeters -> Get(location, kRadiusMeters).n > 0
              [] key = kProximity -> Get(location, kProximity).s \in {sArriving, sLeaving}
    IN SelectSeq(location.props, LAMBDA prop : kept(prop[1]))

\* C9 as stated: no read fails, and a stored location that is invalid is
\* read back as null, the notes and tags of its token still returned.
C9_LenientReadAsStated ==
    /\ op.name = "getRemindersFromList" => ret.ok
    /\ ReadInvalidLocation => ReadNotesAndTags /\ ret.v[1].location = JNull

\* C9: no read fails because of a stored body, and a stored location that
\* is invalid is read back with the fields that are in order and without
\* the others, as null when no field is in order; the notes and tags of its
\* token are still returned.
C9_LenientRead ==
    /\ op.name = "getRemindersFromList" => ret.ok /\ Len(ret.v) = 1
    /\ ReadInvalidLocation =>
          /\ ReadNotesAndTags
          /\ ret.v[1].location = (IF FieldsInOrder(op.location) = <<>> THEN JNull
                                  ELSE JObj(FieldsInOrder(op.location)))

\* C9's case: latitude 95 and no other field was stored beside notes and
\* tags, and the read returned them with no location.
C9_Witness ==
    /\ ReadInvalidLocation
    /\ op.location = Location(<<<<kLatitude, JNum(95)>>>>)
    /\ op.notes = Str("n")
    /\ ret.v[1].tags = TagList(<<"a">>)
    /\ ret.v[1].location = JNull

----------------------------------------------------------------------------
(* The operations in sequence. The store starts with the real lists Work   *)
(* and Home, Work empty or holding one row called seed; callers then run   *)
(* up to MaxOps operations, one after the other, each reading the store    *)
(* the one before it left.                                                 *)

MaxOps == 2

sWork == Chars("Work")
sSeed == Chars("seed")

\* The bodies the row called seed starts with: plain notes, tokens of
\* another writer, a corrupted token.
SeedBodies ==
    {Str("n"),
     MarkedBody(Chars("n\n\n"),
                TokenOf(JObj(<<<<kTags, TagList(<<"a">>)>>,
                               <<kLocation, HomeLocation>>>>)), <<>>),
     MarkedBody(<<>>,
                TokenOf(JObj(<<<<kTags, TagList(<<"# a">>)>>,
                               <<kLocation, Location(<<<<kLatitude, JNum(95)>>>>)>>>>)),
                <<>>),
     MarkedBody(Chars("n\n\n"), Chars("e3"), <<>>)}

EmptyStore ==
    <<[id |-> <<"L", 1>>, name |-> sWork, items |-> <<>>],
      [id |-> <<"L", 2>>, name |-> Chars("Home"), items |-> <<>>]>>

\* The arguments of a createReminder call, and the calls the callers make.
BaseCreate ==
    [listName |-> sWork, title |-> Chars("t"), dueDate |-> JUndef, notes |-> JUndef,
     flagged |-> JUndef, priority |-> JUndef, tags |-> JUndef, location |-> JUndef]

Latitude95 == Location(<<<<kLatitude, JNum(95)>>>>)

\* One invalid location of each kind for the calls that write.
SuppliedInvalidLocations ==
    {Latitude95,
     Location(<<<<kLatitude, JNum(10)>>, <<kLongitude, JNum(181)>>>>),
     Location(<<<<kLatitude, JNum(10)>>, <<kLongitude, JNum(10)>>,
                <<kRadiusMeters, JNum(0)>>>>),
     Location(<<<<kProximity, Str("near")>>>>),
     Location(<<<<kLongitude, JNum(10)>>>>)}

\* The kinds a creation is made with, and the kinds that are set.
CreatedInvalidLocations ==
    {location \in SuppliedInvalidLocations :
        HasProp(location.props, kLatitude) \/ HasProp(location.props, kProximity)}

SetInvalidLocations ==
    {location \in SuppliedInvalidLocations :
        ~HasProp(location.props, kRadiusMeters) /\ location # Latitude95}

CreateCalls ==
    {[BaseCreate EXCEPT !.listName = listName] :
        listName \in {sWork, Chars("Smart: Today"), Chars("today"), Chars("Nowhere")}}
    \cup {[BaseCreate EXCEPT !.tags = tags, !.notes = Str("n ")] :
            tags \in {TagList(<<"# # # a">>), TagList(<<"work", "Work", "#urgent">>)}}
    \cup {[BaseCreate EXCEPT !.location = location] :
            location \in CreatedInvalidLocations \cup {HomeLocation}}
    \cup {[BaseCreate EXCEPT !.listName = listName, !.location = Latitude95] :
            listName \in {Chars("Smart: Today"), Chars("Nowhere")}}
    \cup {[BaseCreate EXCEPT !.dueDate = dueDate] : dueDate \in {Str("bogus")}}
    \cup {[BaseCreate EXCEPT !.dueDate = Str("bogus"), !.location = Latitude95],
          [BaseCreate EXCEPT !.flagged = JBool(TRUE), !.priority = JNum(5),
                             !.notes = Str("n"), !.tags = TagList(<<"a">>),
                             !.location = HomeLocation]}

\* The attributes of a setReminderAttributes call: a field that is not
\* supplied is undefined.
Attributes(tags, location, flagged, priority) ==
    JObj(<<<<kTags, tags>>, <<kLocation, location>>,
           <<kFlagged, flagged>>, <<kPriority, priority>>>>)

SetCall(listName, reminderName, attributes) ==
    [listName |-> listName, reminderName |-> reminderName, attributes |-> attributes]

SetCalls ==
    {SetCall(sWork, sSeed, Attributes(supplied[1], supplied[2], JUndef, JUndef)) :
        supplied \in {<<JUndef, JUndef>>, <<JUndef, JNull>>, <<JUndef, HomeLocation>>,
                      <<TagList(<<>>), JUndef>>, <<TagList(<<>>), JNull>>,
                      <<TagList(<<"x">>), JUndef>>}}
    \cup {SetCall(sWork, Chars("t"), attributes) :
            attributes \in {Attributes(JUndef, HomeLocation, JUndef, JUndef),
                            Attributes(TagList(<<>>), JUndef, JUndef, JUndef),
                            Attributes(TagList(<<"x">>), JNull, JUndef, JUndef)}}
    \cup {SetCall(sWork, sSeed, Attributes(JUndef, location, JUndef, JUndef)) :
            location \in SetInvalidLocations}
    \cup {SetCall(listName, Chars("missing"),
                  Attributes(JUndef, Latitude95, JUndef, JUndef)) :
            listName \in {sWork, Chars("Nowhere")}}
    \cup {SetCall(sWork, sSeed, Attributes(JUndef, JUndef, JBool(TRUE), JNum(1))),
          SetCall(Chars("Smart: All"), sSeed,
                  Attributes(TagList(<<"x">>), JUndef, JUndef, JUndef))}

ReadCalls == {sWork}

WriteInit ==
    /\ lists \in {EmptyStore} \cup {StoreWithBody(body) : body \in SeedBodies}
    /\ now = QueryDay * TicksPerDay
    /\ nextId = 2
    /\ op = [name |-> "none", listName |-> <<>>, reminderName |-> <<>>,
             args |-> JUndef, store |-> lists]
    /\ ret = Returns(JUndef)
    /\ calls = <<>>
    /\ steps = 0

\* What every operation leaves behind: its outcome, and the store after the
\* calls it issued.
Done(outcome) ==
    /\ ret' = outcome.ret
    /\ calls' = outcome.calls
    /\ lists' = StoreAfterCalls(lists, outcome.calls, nextId)
    /\ nextId' = nextId + Len(outcome.calls)
    /\ steps' = steps + 1
    /\ UNCHANGED now

CreateReminder ==
    /\ steps < MaxOps
    /\ \E call \in CreateCalls :
          /\ op' = [name |-> "createReminder", listName |-> call.listName,
                    reminderName |-> call.title, args |-> call, store |-> lists]
          /\ Done(createReminder(lists, call.listName, call.title, call.dueDate,
                                 call.notes, call.flagged, call.priority, call.tags,
                                 call.location))

SetReminderAttributes ==
    /\ steps < MaxOps
    /\ \E call \in SetCalls :
          /\ op' = [name |-> "setReminderAttributes", listName |-> call.listName,
                    reminderName |-> call.reminderName, args |-> call.attributes,
                    store |-> lists]
          /\ Done(setReminderAttributes(lists, call.listName, call.reminderName,
                                        call.attributes, now))

GetRemindersFromList ==
    /\ steps < MaxOps
    /\ \E listName \in ReadCalls :
          /\ op' = [name |-> "getRemindersFromList", listName |-> listName,
                    reminderName |-> <<>>, args |-> JUndef, store |-> lists]
          /\ Done(getRemindersFromList(lists, listName, now))

WriteNext == CreateReminder \/ SetReminderAttributes \/ GetRemindersFromList

SpecWrite == WriteInit /\ [][WriteNext]_vars

\* The operation named has just run.
Ran(name) == op.name = name

\* How the list name of the operation resolves in the store it ran on.
Resolution == resolveListByName(op.store, op.listName)

\* The store holds what it held before the operation.
StoreUntouched == calls = <<>> /\ lists = op.store

\* C6: createReminder with a list name that resolves to a smart list fails
\* with the error that names the list, issues no create call, and leaves
\* the store as it was, at every point of every sequence of operations.
C6_NoCreateInSmartList ==
    Ran("createReminder") /\ Resolution.ok /\ Resolution.v.kind = "smart" =>
        /\ ret = Throws(Chars("Failed to create reminder: Cannot create reminders in ")
                        \o Chars("smart list \"") \o op.listName
                        \o Chars("\". Select a regular reminder list."))
        /\ StoreUntouched

\* C6's case: after a create that went through, a create naming the smart
\* list Today without its prefix has been refused.
C6_Witness ==
    /\ Ran("createReminder")
    /\ op.listName = Chars("today")
    /\ steps = 2
    /\ Len(op.store[1].items) > 0
    /\ ~ret.ok
    /\ StoreUntouched

\* The location supplied to the operation, undefined when there is none.
SuppliedLocation ==
    IF Ran("createReminder") THEN op.args.location
    ELSE IF Ran("setReminderAttributes") THEN Get(op.args, kLocation)
    ELSE JUndef

\* A supplied location with a latitude outside -90..90, a longitude outside
\* -180..180, a radius that is not greater than 0, a proximity other than
\* arriving and leaving, or exactly one of latitude and longitude.
IsInvalid(location) ==
    /\ location.t = "object"
    /\ \/ HasProp(location.props, kLatitude) /\ Get(location, kLatitude).n \notin -90..90
       \/ HasProp(location.props, kLongitude)
            /\ Get(location, kLongitude).n \notin -180..180
       \/ HasProp(location.props, kRadiusMeters) /\ Get(location, kRadiusMeters).n <= 0
       \/ HasProp(location.props, kProximity)
            /\ Get(location, kProximity) \notin {Str("arriving"), Str("leaving")}
       \/ HasProp(location.props, kLatitude) # HasProp(location.props, kLongitude)

\* The messages of the validation errors: the five of the location, the one
\* of the due date, the one of a smart list named for a creation.
LocationMessages ==
    {Chars("location.latitude must be between -90 and 90"),
     Chars("location.longitude must be between -180 and 180"),
     Chars("location.radiusMeters must be greater than 0"),
     Chars("location.proximity must be \"arriving\" or \"leaving\""),
     Chars("location.latitude and location.longitude must be provided together")}

FailedWith(prefix, messages) ==
    ~ret.ok /\ \E message \in messages : ret.e = Chars(prefix) \o message

FailedValidation ==
    \/ FailedWith("Failed to set reminder attributes: ", LocationMessages)
    \/ FailedWith("Failed to create reminder: ", LocationMessages)
    \/ /\ Ran("createReminder")
       /\ FailedWith("Failed to create reminder: ",
                     {Chars("Invalid dueDate \"")
                         \o (IF op.args.dueDate.t = "string" THEN op.args.dueDate.s
                             ELSE <<>>)
                         \o Chars("\". Use an ISO-compatible date string."),
                      Chars("Cannot create reminders in smart list \"") \o op.listName
                         \o Chars("\". Select a regular reminder list.")})

\* The reminder setReminderAttributes was called for, in the store the call
\* ran on.
Target == getReminderByName(op.store, op.listName, op.reminderName, {"name", "id", "body"}, now)
TargetFound == Target.ok /\ Target.v.found

BodyOfId(store, id) ==
    LET place == CHOOSE place \in (1..Len(store)) \X (1..MaxOps + 1) :
                     /\ place[2] <= Len(store[place[1]].items)
                     /\ store[place[1]].items[place[2]].id = id
    IN store[place[1]].items[place[2]].body

\* What the body of the target decoded to before the call, and what the
\* body of the same row decodes to after it.
DecodedBefore == parseReminderBody(Target.v.item.body)
DecodedAfter == parseReminderBody(BodyOfId(lists, Target.v.item.id))

\* setReminderAttributes has returned true for a reminder that was found.
SetOnFound == Ran("setReminderAttributes") /\ TargetFound /\ ret = Returns(TRUE)

SuppliedTags == Get(op.args, kTags)

\* C2: after setReminderAttributes on a reminder that is found, tags = []
\* leaves no tags, location = null leaves no location, a field that is not
\* supplied decodes to what it decoded to before, and a supplied non-empty
\* value is the one decoded.
C2_MergeAsStated ==
    SetOnFound =>
        /\ SuppliedTags = JArr(<<>>) => RecoveredTags(DecodedAfter) = JArr(<<>>)
        /\ SuppliedLocation = JNull => RecoveredLocation(DecodedAfter) = JNull
        /\ SuppliedTags = JUndef =>
              RecoveredTags(DecodedAfter) = RecoveredTags(DecodedBefore)
        /\ SuppliedLocation = JUndef =>
              RecoveredLocation(DecodedAfter) = RecoveredLocation(DecodedBefore)
        /\ SuppliedTags.t = "array" /\ SuppliedTags.a # <<>> =>
              RecoveredTags(DecodedAfter) = SuppliedTags
        /\ SuppliedLocation.t = "object" =>
              RecoveredLocation(DecodedAfter) = normalizeLocation(SuppliedLocation, FALSE).v

----------------------------------------------------------------------------
(* One call and the read after it. The list Work holds up to MaxItems rows *)
(* whose names may repeat, Home holds one row; a caller makes one call of  *)
(* an operation that writes, and then reads the list the call named.       *)

MaxItems == 3

\* The names of the rows, and the body a row of each name has.
RowNames == {Chars("a"), Chars("A"), Chars("b")}

BodyOfName(name) ==
    CASE name = Chars("a") ->
            MarkedBody(Chars("n\n\n"), TokenOf(JObj(<<<<kTags, TagList(<<"x">>)>>>>)), <<>>)
      [] name = Chars("A") -> JNull
      [] OTHER -> Str("n")

NamedRow(id, name) ==
    [id |-> JStr(id), name |-> JStr(name), body |-> BodyOfName(name),
     completed |-> JBool(FALSE), dueDate |-> JNull,
     flagged |-> JBool(FALSE), priority |-> JNum(0)]

\* Work with the rows named, in order, and Home with a row called a.
StoreOfNames(names) ==
    <<[id |-> <<"L", 1>>, name |-> sWork,
       items |-> [i \in 1..Len(names) |-> NamedRow(<<"W", i>>, names[i])]],
      [id |-> <<"L", 2>>, name |-> Chars("Home"),
       items |-> <<NamedRow(<<"H", 1>>, Chars("a"))>>]>>

\* The calls by name of a reminder: the lists and the names asked for.
LookupLists == {sWork, Chars("Smart: All"), Chars("Nowhere")}
LookupNames == {Chars("a"), Chars("b"), Chars("c"), Chars(" a")}

\* The attributes setReminderAttributes is called with.
AttributeValues ==
    {Attributes(JUndef, JUndef, JUndef, JUndef),
     Attributes(JUndef, JUndef, JBool(TRUE), JUndef),
     Attributes(JUndef, JUndef, JUndef, JNum(5)),
     Attributes(JUndef, JUndef, JBool(FALSE), JNum(0)),
     Attributes(TagList(<<"y">>), JUndef, JUndef, JUndef),
     Attributes(JUndef, HomeLocation, JBool(TRUE), JUndef),
     Attributes(TagList(<<>>), JNull, JUndef, JNum(1)),
     Attributes(JUndef, Latitude95, JUndef, JUndef)}

\* The due dates and tags createReminder is called with.
DueDateValues ==
    {JUndef, Str(""), Str(" "), Str("bogus"), Str("1970-01-32"), Str("1970-01-03")}

CreatedTags ==
    {JUndef, TagList(<<>>), TagList(<<"work", "Work", "#urgent">>),
     TagList(<<" b ", "#", "B", "a">>), TagList(<<"# a">>)}

CallArguments ==
    {[fn |-> fn, listName |-> listName, reminderName |-> reminderName, args |-> JUndef] :
        fn \in {"completeReminder", "deleteReminder"},
        listName \in LookupLists, reminderName \in LookupNames}
    \cup {[fn |-> "setReminderAttributes", listName |-> listName,
           reminderName |-> reminderName, args |-> attributes] :
            listName \in LookupLists, reminderName \in LookupNames,
            attributes \in AttributeValues}
    \cup {[fn |-> "createReminder", listName |-> listName, reminderName |-> Chars("t"),
           args |-> [BaseCreate EXCEPT !.listName = listName, !.dueDate = dueDate,
                                       !.tags = tags]] :
            listName \in {sWork, Chars("Smart: Today"), Chars("Nowhere")},
            dueDate \in DueDateValues, tags \in CreatedTags}

CallInit ==
    /\ lists \in {StoreOfNames(names) : names \in SeqsUpTo(RowNames, MaxItems)}
    /\ \E call \in CallArguments :
          op = [name |-> "arguments", fn |-> call.fn, listName |-> call.listName,
                reminderName |-> call.reminderName, args |-> call.args,
                store |-> lists, first |-> Returns(JUndef)]
    /\ ret = Returns(JUndef)
    /\ now = QueryDay * TicksPerDay
    /\ nextId = 1
    /\ calls = <<>>
    /\ steps = 0

\* The call is made: the operation is the one the caller chose.
Called(fn) ==
    /\ op.name = "arguments"
    /\ op.fn = fn
    /\ op' = [op EXCEPT !.name = fn]

CallCreateReminder ==
    /\ Called("createReminder")
    /\ Done(createReminder(lists, op.listName, op.args.title, op.args.dueDate,
                           op.args.notes, op.args.flagged, op.args.priority,
                           op.args.tags, op.args.location))

CallSetReminderAttributes ==
    /\ Called("setReminderAttributes")
    /\ Done(setReminderAttributes(lists, op.listName, op.reminderName, op.args, now))

CallCompleteReminder ==
    /\ Called("completeReminder")
    /\ Done(completeReminder(lists, op.listName, op.reminderName, now))

CallDeleteReminder ==
    /\ Called("deleteReminder")
    /\ Done(deleteReminder(lists, op.listName, op.reminderName, now))

\* The read of the list the call named; the outcome of the call is kept.
CallGetRemindersFromList ==
    /\ op.name = op.fn
    /\ op' = [op EXCEPT !.name = "getRemindersFromList", !.first = ret]
    /\ Done(getRemindersFromList(lists, op.listName, now))

CallNext ==
    \/ CallCreateReminder
    \/ CallSetReminderAttributes
    \/ CallCompleteReminder
    \/ CallDeleteReminder
    \/ CallGetRemindersFromList

SpecCall == CallInit /\ [][CallNext]_vars

\* createReminder has run, for a real list, with a due date string that
\* new Date does not read as a date.
UnparsableDueDate ==
    /\ Ran("createReminder")
    /\ Resolution.ok /\ Resolution.v.kind = "regular"
    /\ op.args.dueDate.t = "string"
    /\ ~DateOfString(op.args.dueDate.s).valid

\* C11: createReminder on a real list with a due date string that does not
\* parse as a date fails with an error whose message contains the string,
\* and issues no create call.
C11_StrictDueDate ==
    UnparsableDueDate =>
        /\ ~ret.ok
        /\ Includes(ret.e, op.args.dueDate.s)
        /\ StoreUntouched

\* The items of the list the call named, as the store held them before the
\* call, and whether one of them has exactly the name asked for.
ResolvedItems == fetchRemindersForList(op.store, op.listName, ItemProps, now)
NameHeld ==
    \E i \in 1..Len(ResolvedItems.v) : ResolvedItems.v[i].name = JStr(op.reminderName)

\* One of the operations that look a reminder up by name has run on a list
\* that resolves.
LookedUp ==
    /\ op.name \in {"completeReminder", "deleteReminder", "setReminderAttributes"}
    /\ ResolvedItems.ok

\* C12: when the resolved list holds no item whose name equals reminderName
\* exactly, completeReminder, deleteReminder and setReminderAttributes return
\* false, issue no call, and leave the store unchanged.
C12_NotFound ==
    LookedUp /\ ~NameHeld => ret = Returns(FALSE) /\ StoreUntouched

\* C12's case: a reminder called a was asked for in Work, which holds only
\* rows called A, and the call supplied attributes.
C12_Witness ==
    /\ Ran("setReminderAttributes")
    /\ op.listName = sWork
    /\ op.reminderName = Chars("a")
    /\ Len(op.store[1].items) = 2
    /\ \A i \in 1..2 : op.store[1].items[i].name = Str("A")
    /\ Get(op.args, kTags) = TagList(<<"y">>)
    /\ ret = Returns(FALSE)
    /\ StoreUntouched

\* The fields among flagged and priority that the call supplied.
SuppliedNative ==
    {key \in {"flagged", "priority"} : Get(op.args, Chars(key)).t # "undefined"}

\* setReminderAttributes has run for a reminder that is found, with neither
\* tags nor location supplied.
SetWithoutMetadata ==
    /\ Ran("setReminderAttributes")
    /\ TargetFound
    /\ Get(op.args, kTags).t = "undefined"
    /\ Get(op.args, kLocation).t = "undefined"

\* The bodies of all rows of a store, list by list.
BodiesOf(store) ==
    [k \in 1..Len(store) |-> [i \in 1..Len(store[k].items) |-> store[k].items[i].body]]

\* C13: setReminderAttributes for a reminder that is found returns true and
\* issues no update call when nothing is supplied; when only flagged and/or
\* priority are supplied, the one update carries exactly those fields for
\* the reminder found, and no stored body changes.
C13_NativeOnly ==
    SetWithoutMetadata =>
        /\ ret = Returns(TRUE)
        /\ SuppliedNative = {} => StoreUntouched
        /\ SuppliedNative # {} =>
              /\ Len(calls) = 1
              /\ calls[1].fn = "updateReminder"
              /\ calls[1].id = Target.v.item.id.s
              /\ DOMAIN calls[1].data = SuppliedNative
              /\ \A key \in SuppliedNative : calls[1].data[key] = Get(op.args, Chars(key))
              /\ BodiesOf(lists) = BodiesOf(op.store)

\* C13's case: flagged = false and priority = 0 were supplied for a reminder
\* whose body carries a token.
C13_Witness ==
    /\ SetWithoutMetadata
    /\ SuppliedNative = {"flagged", "priority"}
    /\ Get(op.args, kPriority) = JNum(0)
    /\ Target.v.item.body.t = "string"
    /\ Includes(Target.v.item.body.s, METADATA_PREFIX)
    /\ Len(calls) = 1

\* The identifier of the first item of the resolved list, in fetch order,
\* whose name is exactly the name asked for.
FirstNamedId ==
    LET named == {i \in 1..Len(ResolvedItems.v) :
                     ResolvedItems.v[i].name = JStr(op.reminderName)}
        first == CHOOSE i \in named : \A j \in named : i <= j
    IN ResolvedItems.v[first].id

\* The store before the call with one change made to the item of an
\* identifier: completed set, or the item taken out.
WithCompleted(store, id) ==
    [k \in 1..Len(store) |->
        [store[k] EXCEPT !.items =
            [i \in 1..Len(@) |->
                IF @[i].id = id THEN [@[i] EXCEPT !.completed = JBool(TRUE)] ELSE @[i]]]]

WithoutItem(store, id) ==
    [k \in 1..Len(store) |->
        [store[k] EXCEPT !.items = SelectSeq(@, LAMBDA item : item.id # id)]]

\* C14: completeReminder and deleteReminder act on the first item of the
\* resolved list whose name is exactly reminderName and on nothing else:
\* the store after the call is the store before it with that item's
\* completed flag set, or with that item removed.
C14_FirstNamedOnly ==
    /\ Ran("completeReminder") /\ ResolvedItems.ok /\ NameHeld =>
          /\ ret = Returns(TRUE)
          /\ lists = WithCompleted(op.store, FirstNamedId)
    /\ Ran("deleteReminder") /\ ResolvedItems.ok /\ NameHeld =>
          /\ ret = Returns(TRUE)
          /\ lists = WithoutItem(op.store, FirstNamedId)

\* C14's case: Work held A, a, a and the first a was deleted, the second a
\* and the a of Home left in place.
C14_Witness ==
    /\ Ran("deleteReminder")
    /\ op.listName = sWork
    /\ op.reminderName = Chars("a")
    /\ Len(op.store[1].items) = 3
    /\ op.store[1].items[1].name = Str("A")
    /\ op.store[1].items[2].name = Str("a")
    /\ op.store[1].items[3].name = Str("a")
    /\ Len(lists[1].items) = 2
    /\ lists[1].items[2] = op.store[1].items[3]
    /\ lists[2] = op.store[2]

\* createReminder returned true and the list it named has been read.
CreatedThenRead ==
    /\ Ran("getRemindersFromList")
    /\ op.fn = "createReminder"
    /\ op.first = Returns(TRUE)

\* C15: after createReminder(L, title, tags = T) returned true, the read of
\* L contains a record named title whose tags are T normalized: trimmed,
\* leading '#' stripped, empty results dropped, duplicates dropped without
\* regard to case, first seen first.
C15_CreateThenRead ==
    CreatedThenRead =>
        /\ ret.ok
        /\ \E i \in 1..Len(ret.v) :
              /\ ret.v[i].name = op.args.title
              /\ ret.v[i].tags = normalizeTags(op.args.tags).v

\* ---------------------------------------------------------------------
\* SpecTags: normalizeTags applied to a list of tag strings, then to its
\* own result.
\* ---------------------------------------------------------------------

MaxTags == 3

TagStrings ==
    {Chars("a"), Chars("A"), Chars("#A"), Chars("B"), Chars(" a "), Chars("# a"),
     Chars("#")}

TagLists == {JArr([i \in 1..Len(x) |-> JStr(x[i])]) : x \in SeqsUpTo(TagStrings, MaxTags)}

TagsInit ==
    /\ CodecIdle
    /\ ret = Returns(JUndef)
    /\ \E tags \in TagLists :
          op = [name |-> "arguments", tags |-> tags, first |-> Returns(JUndef)]

TagsNormalize ==
    /\ op.name = "arguments"
    /\ op' = [op EXCEPT !.name = "normalizeTags"]
    /\ ret' = normalizeTags(op.tags)
    /\ UNCHANGED <<lists, now, nextId, steps, calls>>

TagsNormalizeAgain ==
    /\ op.name = "normalizeTags"
    /\ ret.ok
    /\ op' = [op EXCEPT !.name = "normalizeTags again", !.first = ret]
    /\ ret' = normalizeTags(ret.v)
    /\ UNCHANGED <<lists, now, nextId, steps, calls>>

TagsNext == TagsNormalize \/ TagsNormalizeAgain

SpecTags == TagsInit /\ [][TagsNext]_vars

\* C16: normalizeTags is idempotent: applied to its own result it returns
\* that result.
C16_Idempotent == Ran("normalizeTags again") => ret = op.first

\* ---------------------------------------------------------------------
\* The location through the codec, whatever the notes (SpecCodec).
\* ---------------------------------------------------------------------

\* A location that strict normalization accepts.
ValidLocation(location) ==
    location.t = "object" /\ normalizeLocation(location, TRUE).ok

\* A location with a field that normalization keeps.
Populated(location) == normalizeLocation(location, FALSE).v.t # "null"

\* A body composed from notes and a valid location alone, and parsed back.
LocationRoundTripped ==
    /\ op.name = "parseReminderBody" /\ op.composed
    /\ op.tags = JUndef
    /\ ValidLocation(op.location)

\* C17 as stated: for every valid location L and every notes value
\* whatsoever, parseReminderBody(composeReminderBody(notes, {location: L}))
\* returns a location equal to normalizeLocation(L, lenient).
C17_LocationAsStated ==
    LocationRoundTripped =>
        RecoveredLocation(ret) = normalizeLocation(op.location, FALSE).v

\* The notes end in a marker of their own that decodes to a location.
NotesCarryLocation == RecoveredLocation(parseReminderBody(op.notes)) # JNull

\* C17 as amended: the same, for every valid location one field of which
\* normalization keeps whatever the notes, and for a valid location with no
\* such field when the notes do not themselves end in a marker that decodes
\* to a location.
C17_LocationRoundTrip ==
    LocationRoundTripped /\ (Populated(op.location) \/ ~NotesCarryLocation) =>
        RecoveredLocation(ret) = normalizeLocation(op.location, FALSE).v

\* C17's case: notes that end in a marker of another location were composed
\* with a location and parsed back, and the location composed came back.
C17_Witness ==
    /\ LocationRoundTripped
    /\ op.notes = LocatedNotes
    /\ op.location = HomeLocation
    /\ Get(RecoveredLocation(ret), kTitle) = Str("Home")

\* ---------------------------------------------------------------------
\* SpecGetTags: getTags on a store of two lists, Work with up to MaxTagged
\* rows and Home with at most one, whose rows carry tags in their bodies.
\* ---------------------------------------------------------------------

MaxTagged == 2

\* The bodies of the rows: tags that differ in case from one body to the
\* other, and a row without a body.
TaggedBodies ==
    {MarkedBody(Chars("n\n\n"), TokenOf(JObj(<<<<kTags, TagList(<<"work", "b">>)>>>>)), <<>>),
     MarkedBody(<<>>, TokenOf(JObj(<<<<kTags, TagList(<<"Work", "a">>)>>>>)), <<>>),
     MarkedBody(<<>>, TokenOf(JObj(<<<<kTags, TagList(<<"B">>)>>>>)), <<>>),
     JNull}

TaggedRow(id, body) ==
    [id |-> JStr(id), name |-> Str("r"), body |-> body,
     completed |-> JBool(FALSE), dueDate |-> JNull,
     flagged |-> JBool(FALSE), priority |-> JNum(0)]

TaggedStore(work, home) ==
    <<[id |-> <<"L", 1>>, name |-> sWork,
       items |-> [i \in 1..Len(work) |-> TaggedRow(<<"W", i>>, work[i])]],
      [id |-> <<"L", 2>>, name |-> Chars("Home"),
       items |-> [i \in 1..Len(home) |-> TaggedRow(<<"H", i>>, home[i])]]>>

GetTagsInit ==
    /\ \E work \in SeqsUpTo(TaggedBodies, MaxTagged),
          home \in SeqsUpTo(TaggedBodies, 1) :
          lists = TaggedStore(work, home)
    /\ \E listName \in {JUndef, Str("Home"), Str("Nowhere")} :
          op = [name |-> "arguments", listName |-> listName, store |-> lists]
    /\ now = 0
    /\ nextId = 1
    /\ steps = 0
    /\ calls = <<>>
    /\ ret = Returns(JUndef)

GetTags ==
    /\ op.name = "arguments"
    /\ op' = [op EXCEPT !.name = "getTags"]
    /\ Done(getTags(lists, op.listName, now))

GetTagsNext == GetTags

SpecGetTags == GetTagsInit /\ [][GetTagsNext]_vars

\* The tags decoded from the bodies of rows, row after row.
RECURSIVE TagsOfRows(_)
TagsOfRows(items) ==
    IF items = <<>> THEN <<>>
    ELSE ReminderTags(parseReminderBody(Head(items).body)) \o TagsOfRows(Tail(items))

\* The tags stored in list k, and in every list, list after list.
StringsOf(values) == [n \in DOMAIN values |-> values[n].s]

TagsOfList(store, k) == StringsOf(TagsOfRows(store[k].items))

RECURSIVE TagsFrom(_, _)
TagsFrom(store, k) ==
    IF k > Len(store) THEN <<>> ELSE TagsOfList(store, k) \o TagsFrom(store, k + 1)

\* a comes before b in the dictionary: by letter, whatever the case.
DictionaryBefore(a, b) ==
    \E k \in 1..(Len(a) + 1) :
        /\ k - 1 <= Len(b)
        /\ ToLowerCase(SubSeq(a, 1, k - 1)) = ToLowerCase(SubSeq(b, 1, k - 1))
        /\ \/ k > Len(a) /\ k <= Len(b)
           \/ /\ k <= Len(a) /\ k <= Len(b)
              /\ IndexIn(Lower, LowerChar(a[k])) < IndexIn(Lower, LowerChar(b[k]))

\* The tags returned are those seen, each once whatever its case, in the
\* casing of its first occurrence, in dictionary order.
UnionOf(returned, seen) ==
    /\ {ToLowerCase(returned[i]) : i \in 1..Len(returned)}
          = {ToLowerCase(seen[n]) : n \in 1..Len(seen)}
    /\ \A i \in 1..Len(returned) :
          \E n \in 1..Len(seen) :
             /\ seen[n] = returned[i]
             /\ \A m \in 1..(n - 1) : ToLowerCase(seen[m]) # ToLowerCase(returned[i])
    /\ \A i, j \in 1..Len(returned) :
          i < j => /\ ToLowerCase(returned[i]) # ToLowerCase(returned[j])
                   /\ DictionaryBefore(returned[i], returned[j])

\* C18: getTags with no list argument returns the union of the tags decoded
\* from the items of every real list; no two returned tags are equal when
\* case is ignored, a tag is returned in the casing in which it is first seen,
\* and the tags are sorted in dictionary order.
C18_AllTags ==
    Ran("getTags") /\ op.listName = JUndef =>
        ret.ok /\ UnionOf(ret.v, TagsFrom(op.store, 1))

\* C18's case: Work holds the tag work and the tag B, Home holds Work and a:
\* the tags returned are a, B and work, each once, in that order.
C18_Witness ==
    /\ Ran("getTags") /\ op.listName = JUndef
    /\ ret = Returns(<<Chars("a"), Chars("B"), Chars("work")>>)
    /\ \E n \in DOMAIN TagsOfList(op.store, 1) : TagsOfList(op.store, 1)[n] = Chars("work")
    /\ \E n \in DOMAIN TagsOfList(op.store, 2) : TagsOfList(op.store, 2)[n] = Chars("Work")

\* ---------------------------------------------------------------------
\* SpecTools: one call of a tool. The list Work holds up to MaxToolRows
\* rows, Home one; the arguments are those the schemas let through; the
\* store answers, or fails every request made to it.
\* ---------------------------------------------------------------------

MaxToolRows == 2

\* The message of the error a request to a store that fails is rejected with.
NativeError == Chars("Command failed: osascript")

ToolCall(tool, listName, reminderName, args) ==
    [tool |-> tool, listName |-> listName, reminderName |-> reminderName, args |-> args]

ToolLists == {sWork, Chars("Smart: All"), Chars("Nowhere")}

ToolCalls ==
    {ToolCall("getLists", <<>>, <<>>, JUndef)}
    \cup {ToolCall("getReminders", listName, <<>>, JUndef) : listName \in ToolLists}
    \cup {ToolCall("createReminder", listName, Chars("t"),
                   [BaseCreate EXCEPT !.listName = listName, !.dueDate = dueDate]) :
            listName \in ToolLists, dueDate \in {JUndef, Str("1970-01-03")}}
    \cup {ToolCall("getTags", <<>>, <<>>, listName) :
            listName \in {JUndef, JStr(sWork), Str("Nowhere")}}
    \cup {ToolCall("setReminderAttributes", listName, reminderName, attributes) :
            listName \in ToolLists, reminderName \in {Chars("a"), Chars("c")},
            attributes \in {Attributes(JUndef, JUndef, JBool(TRUE), JUndef),
                            Attributes(TagList(<<"y">>), HomeLocation, JUndef, JUndef)}}
    \cup {ToolCall(tool, listName, reminderName, JUndef) :
            tool \in {"completeReminder", "deleteReminder"},
            listName \in ToolLists, reminderName \in {Chars("a"), Chars("c")}}

ToolsInit ==
    /\ lists \in {StoreOfNames(names) : names \in SeqsUpTo(RowNames, MaxToolRows)}
    /\ \E call \in ToolCalls, available \in BOOLEAN :
          op = [name |-> "arguments", tool |-> call.tool, listName |-> call.listName,
                reminderName |-> call.reminderName, args |-> call.args,
                store |-> lists, available |-> available, first |-> Returns(JUndef)]
    /\ ret = Returns(JUndef)
    /\ now = QueryDay * TicksPerDay
    /\ nextId = 1
    /\ steps = 0
    /\ calls = <<>>

\* The outcome of an operation: its own when the store answers; when the
\* store fails, the error of the operation's catch block, which prefixes the
\* message of the error caught.
Awaited(failure, outcome) ==
    IF op.available THEN outcome
    ELSE Outcome(Throws(failure \o Chars(": ") \o NativeError), <<>>)

\* The handler of a tool ran: what the operation returned or threw is kept
\* in op.first, the response in ret.
Handled(tool, first, response) ==
    /\ op.name = "arguments"
    /\ op.tool = tool
    /\ op' = [op EXCEPT !.name = tool, !.first = first]
    /\ Done(response)

HandledGetLists(outcome) == Handled("getLists", outcome.ret, getListsTool(outcome))

ToolGetLists ==
    HandledGetLists(Awaited(Chars("Failed to get reminder lists"), getRemindersLists(lists)))

HandledGetReminders(outcome) ==
    Handled("getReminders", outcome.ret, getRemindersTool(op.listName, outcome))

ToolGetReminders ==
    HandledGetReminders(
        Awaited(Chars("Failed to get reminders from list \"") \o op.listName \o Chars("\""),
                getRemindersFromList(lists, op.listName, now)))

HandledCreateReminder(outcome) ==
    Handled("createReminder", outcome.ret, createReminderTool(outcome))

ToolCreateReminder ==
    HandledCreateReminder(
        Awaited(Chars("Failed to create reminder"),
                createReminder(lists, op.listName, op.args.title, op.args.dueDate,
                               op.args.notes, op.args.flagged, op.args.priority,
                               op.args.tags, op.args.location)))

HandledGetTags(outcome) == Handled("getTags", outcome.ret, getTagsTool(outcome))

ToolGetTags ==
    HandledGetTags(Awaited(Chars("Failed to get tags"), getTags(lists, op.args, now)))

HandledSetReminderAttributes(outcome) ==
    Handled("setReminderAttributes", outcome.ret, setReminderAttributesTool(outcome))

ToolSetReminderAttributes ==
    HandledSetReminderAttributes(
        Awaited(Chars("Failed to set reminder attributes"),
                setReminderAttributes(lists, op.listName, op.reminderName, op.args, now)))

HandledCompleteReminder(outcome) ==
    Handled("completeReminder", outcome.ret, completeReminderTool(outcome))

ToolCompleteReminder ==
    HandledCompleteReminder(
        Awaited(Chars("Failed to complete reminder"),
                completeReminder(lists, op.listName, op.reminderName, now)))

HandledDeleteReminder(outcome) ==
    Handled("deleteReminder", outcome.ret, deleteReminderTool(outcome))

ToolDeleteReminder ==
    HandledDeleteReminder(
        Awaited(Chars("Failed to delete reminder"),
                deleteReminder(lists, op.listName, op.reminderName, now)))

ToolsNext ==
    \/ ToolGetLists
    \/ ToolGetReminders
    \/ ToolCreateReminder
    \/ ToolGetTags
    \/ ToolSetReminderAttributes
    \/ ToolCompleteReminder
    \/ ToolDeleteReminder

SpecTools == ToolsInit /\ [][ToolsNext]_vars

ToolNames ==
    {"getLists", "getReminders", "createReminder", "getTags", "setReminderAttributes",
     "completeReminder", "deleteReminder"}

\* The keys of an object, in the order written.
KeysOf(v) == [i \in 1..Len(v.props) |-> v.props[i][1]]

\* The payload of a success, by tool.
SuccessPayload(tool, first, payload) ==
    CASE tool = "getLists" -> Get(payload, Chars("lists")) = StringArray(first.v)
      [] tool = "getReminders" ->
            /\ Get(payload, Chars("reminders")).t = "array"
            /\ Len(Get(payload, Chars("reminders")).a) = Len(first.v)
      [] tool = "getTags" -> Get(payload, kTags) = StringArray(first.v)
      [] OTHER ->
            /\ Get(payload, kSuccess) = JBool(first.v)
            /\ Get(payload, kMessage).t = "string"

\* The text is JSON: {error, details} with the flag set when the operation
\* threw, a success payload without the flag when it returned.
Responds(tool, first, isError, payload) ==
    /\ payload.ok
    /\ payload.v.t = "object"
    /\ IF first.ok
       THEN /\ isError = JUndef
            /\ ~HasProp(payload.v.props, kError)
            /\ SuccessPayload(tool, first, payload.v)
       ELSE /\ isError = JBool(TRUE)
            /\ KeysOf(payload.v) = <<kError, kDetails>>
            /\ Get(payload.v, kError).t = "string"
            /\ Get(payload.v, kDetails) = JStr(first.e)

\* A reminder that is not found is a success payload with success false.
ReportsNotFound(isError, payload) ==
    /\ isError = JUndef
    /\ payload.ok
    /\ Get(payload.v, kSuccess) = JBool(FALSE)

\* C19: each of the seven tool handlers returns a response: when the
\* operation throws, the JSON payload {error, details} with the error flag
\* set; otherwise a success payload with the flag not set; a reminder that
\* is not found is a success payload with success = false, not an error.
C19_AlwaysResponds ==
    op.name \in ToolNames =>
        /\ Len(ret.content) = 1
        /\ ret.content[1].type = "text"
        /\ Responds(op.name, op.first, ret.isError, JsonParse(ret.content[1].text))
        /\ op.available /\ LookedUp /\ ~NameHeld =>
              ReportsNotFound(ret.isError, JsonParse(ret.content[1].text))

\* C19's case: completeReminder threw because the list does not exist, and
\* the handler returned the failure payload with the flag set.
C19_Witness ==
    /\ Ran("completeReminder")
    /\ op.available
    /\ ~op.first.ok
    /\ ret.isError = JBool(TRUE)
    /\ ret.content[1].text
          = Chars("{\"error\":\"Failed to complete reminder\",\"details\":\"Failed to complete reminder: List \\\"Nowhere\\\" not found\"}")

\* ---------------------------------------------------------------------
\* SpecLists: two calls with changes made to the real lists by others
\* between them. A call is resolveListByName of a name or getRemindersLists;
\* a change creates a real list or removes one.
\* ---------------------------------------------------------------------

MaxChanges == 2

\* The names of the lists there are at first, of the lists created, and the
\* names asked for.
FirstListNames == {sWork, Chars("N")}
CreatedListNames == {Chars("N"), Chars(" today ")}
AskedNames == {Chars("n"), Chars("Today"), sWork}

NotEnumerated == [made |-> FALSE, lists |-> <<>>]

\* The lists an enumeration made once would keep returning.
getLists_Cached(current, earlier) == IF earlier.made THEN earlier.lists ELSE current

\* reminders.getLists(): the real lists there are when it is called,
\* whatever an earlier call was given.
getLists(current, earlier) == current

ListsInit ==
    /\ \E names \in SeqsUpTo(FirstListNames, MaxLists) :
          /\ lists = ListsNamed(names)
          /\ nextId = Len(names) + 1
    /\ \E listName \in AskedNames :
          op = [name |-> "arguments", listName |-> listName, made |-> 0, changes |-> 0,
                created |-> {}, removed |-> {}, enumerated |-> NotEnumerated]
    /\ ret = Returns(JUndef)
    /\ now = 0
    /\ steps = 0
    /\ calls = <<>>

\* A call is made: the first, or the second after the changes.
CallMade(name, enumerated) ==
    /\ op.made < 2
    /\ op' = [op EXCEPT !.name = name, !.made = @ + 1,
                        !.enumerated = [made |-> TRUE, lists |-> enumerated]]
    /\ UNCHANGED <<lists, now, nextId, steps, calls>>

ResolvedBy(enumerated) ==
    /\ CallMade("resolveListByName", enumerated)
    /\ ret' = resolveListByName(enumerated, op.listName)

ListsResolve == ResolvedBy(getLists(lists, op.enumerated))

EnumeratedBy(enumerated) ==
    /\ CallMade("getRemindersLists", enumerated)
    /\ ret' = getRemindersLists(enumerated).ret

ListsEnumerate == EnumeratedBy(getLists(lists, op.enumerated))

\* Someone else changes the lists after the first call.
Changed ==
    /\ op.made = 1
    /\ op.changes < MaxChanges

ListCreated ==
    /\ Changed
    /\ \E name \in CreatedListNames :
          lists' = Append(lists, [id |-> <<"L", nextId>>, name |-> name, items |-> <<>>])
    /\ nextId' = nextId + 1
    /\ op' = [op EXCEPT !.name = "changed", !.changes = @ + 1,
                        !.created = @ \cup {<<"L", nextId>>}]
    /\ UNCHANGED <<ret, now, steps, calls>>

ListRemoved ==
    /\ Changed
    /\ \E k \in 1..Len(lists) :
          /\ lists' = SubSeq(lists, 1, k - 1) \o SubSeq(lists, k + 1, Len(lists))
          /\ op' = [op EXCEPT !.name = "changed", !.changes = @ + 1,
                              !.removed = @ \cup {lists[k].id}]
    /\ UNCHANGED <<ret, now, nextId, steps, calls>>

ListsNext == ListsResolve \/ ListsEnumerate \/ ListCreated \/ ListRemoved

SpecLists == ListsInit /\ [][ListsNext]_vars

\* The second call returned, after the changes made since the first.
SecondCall(name) == Ran(name) /\ op.made = 2

\* The lists created since the first call that are still there.
CreatedSince == {k \in 1..Len(lists) : lists[k].id \in op.created}

\* The real list a Regular result holds.
ResolvedRegular == op.enumerated.lists[ret.v.list]

\* C20: nothing is cached across calls. When a real list named N was created
\* between two calls, the second call naming N resolves Regular to a list of
\* that name (to the created list when no other has the name) and
\* getRemindersLists includes N; when a real list was removed between two
\* calls, the second call does not resolve to the removed list.
C20_NothingCached ==
    /\ SecondCall("resolveListByName") =>
          /\ \A k \in CreatedSince :
                SameName(lists[k].name, op.listName) =>
                   /\ ret.ok
                   /\ ret.v.kind = "regular"
                   /\ SameName(ResolvedRegular.name, op.listName)
                   /\ RealMatches = {k} => ResolvedRegular.id = lists[k].id
          /\ ret.ok /\ ret.v.kind = "regular" =>
                /\ ResolvedRegular.id \notin op.removed
                /\ \E k \in 1..Len(lists) : lists[k] = ResolvedRegular
    /\ SecondCall("getRemindersLists") =>
          \A k \in CreatedSince : \E i \in 1..Len(ret.v) : ret.v[i] = lists[k].name

\* C20's case: the first call did not find "Today" among the real lists and
\* returned the smart list, a real list named " today " was then created and
\* another list removed, and the second call returned the created list.
C20_Witness ==
    /\ SecondCall("resolveListByName")
    /\ op.listName = Chars("Today")
    /\ op.removed # {}
    /\ \E k \in CreatedSince :
          /\ lists[k].name = Chars(" today ")
          /\ ret = Returns([kind |-> "regular", list |-> k])

\* ---------------------------------------------------------------------
\* SpecGather: fetchAllReminders with its per-list fetches in flight. The
\* fetches are started together, list by list, and complete in any order;
\* Promise.all resolves when the last has completed.
\* ---------------------------------------------------------------------

\* The identifiers of the rows of a list: none, some shared with other lists.
GatheredIds ==
    {<<>>, <<JStr(<<"1">>)>>, <<JStr(<<"1">>), JStr(<<"2">>)>>,
     <<JStr(<<"2">>), JStr(<<"1">>)>>, <<JUndef>>}

\* The values Promise.all resolves with, taken in the order of completion.
remindersByList_Arrived(fetched, arrival) ==
    [i \in 1..Len(arrival) |-> fetched[arrival[i]]]

\* The values Promise.all resolves with: those of the promises it was given,
\* in the order given, whatever the order of completion.
remindersByList(fetched, arrival) == fetched

\* The rows of the arrays, array after array.
RECURSIVE RowsOfArrays(_)
RowsOfArrays(arrays) ==
    IF arrays = <<>> THEN <<>> ELSE Head(arrays) \o RowsOfArrays(Tail(arrays))

GatherInit ==
    /\ \E ids \in SeqsUpTo(GatheredIds, MaxLists) : lists = ListsWithIds(ids)
    /\ \E props \in {{"name", "body"}, {"name", "id"}} :
          op = [name |-> "arguments", props |-> props, pending |-> {},
                fetched |-> <<>>, arrival |-> <<>>]
    /\ ret = Returns(JUndef)
    /\ now = 0
    /\ nextId = 1
    /\ steps = 0
    /\ calls = <<>>

\* lists.map((list) => fetchRemindersByListId(list.id, mergedProps))
GatherStart ==
    /\ op.name = "arguments"
    /\ op' = [op EXCEPT !.name = "Promise.all", !.pending = 1..Len(lists),
                        !.fetched = [k \in 1..Len(lists) |-> <<>>]]
    /\ UNCHANGED <<lists, ret, now, nextId, steps, calls>>

\* One of the fetches in flight completes.
GatherComplete ==
    /\ op.name = "Promise.all"
    /\ \E k \in op.pending :
          op' = [op EXCEPT !.pending = @ \ {k},
                           !.arrival = Append(@, k),
                           !.fetched[k] = fetchRemindersByListId(
                               lists, lists[k].id,
                               mergeReminderProps(op.props, SMART_FILTER_PROPS))]
    /\ UNCHANGED <<lists, ret, now, nextId, steps, calls>>

\* All have completed: the merge loop runs over what Promise.all resolved with.
GatherMerge ==
    /\ op.name = "Promise.all"
    /\ op.pending = {}
    /\ op' = [op EXCEPT !.name = "fetchAllReminders"]
    /\ ret' = Returns(MergeItems(RowsOfArrays(remindersByList(op.fetched, op.arrival)),
                                 {}, <<>>))
    /\ UNCHANGED <<lists, now, nextId, steps, calls>>

GatherNext == GatherStart \/ GatherComplete \/ GatherMerge

SpecGather == GatherInit /\ [][GatherNext]_vars

\* C21: for every order in which the per-list fetches complete, the merged
\* result is the one the enumeration order of the lists determines: the
\* rows list after list, the first row kept for an identifier that repeats.
C21_ArrivalIrrelevant ==
    Ran("fetchAllReminders") => ret = Returns(fetchAllReminders(lists, op.props))

\* C21's case: the fetch of the second list completed before that of the
\* first, both lists hold a row with the same identifier, and the row kept
\* is the first list's.
C21_Witness ==
    /\ Ran("fetchAllReminders")
    /\ Len(op.arrival) > 1
    /\ op.arrival[1] = 2
    /\ \E i \in 1..Len(lists[1].items), j \in 1..Len(lists[2].items) :
          /\ lists[1].items[i].id.t = "string"
          /\ lists[1].items[i].id = lists[2].items[j].id
          /\ \E p \in 1..Len(ret.v) : ret.v[p].name = lists[1].items[i].name

----------------------------------------------------------------------------
(* The bodies written. Work holds the row called seed, whose body is plain *)
(* notes, blank notes, no body, or carries a token; callers                *)
(* then make up to MaxWrites calls of createReminder and                   *)
(* setReminderAttributes, one after the other, so that a call reads the    *)
(* body the call before it wrote.                                          *)

MaxWrites == 2

\* The bodies the row called seed starts with.
NotedBodies ==
    {Str("n "), Str(" "), JNull,
     MarkedBody(Chars("n\n\n"),
                TokenOf(JObj(<<<<kTags, TagList(<<"a">>)>>,
                               <<kLocation, HomeLocation>>>>)), <<>>),
     MarkedBody(Chars("n\n\n"), Chars("e3"), <<>>)}

\* The creations: with and without notes, with and without metadata.
NotedCreates ==
    {[BaseCreate EXCEPT !.notes = notes, !.tags = TagList(<<"a">>),
                       !.location = HomeLocation] :
        notes \in {JUndef, Str("n "), SentinelNotes}}
    \cup {[BaseCreate EXCEPT !.notes = Str("n ")]}

\* The attributes set, on the row called seed and on a row created.
BodySets ==
    {SetCall(sWork, reminderName, attributes) :
        reminderName \in {sSeed, Chars("t")},
        attributes \in {Attributes(JUndef, HomeLocation, JUndef, JUndef),
                        Attributes(TagList(<<>>), JNull, JUndef, JUndef),
                        Attributes(TagList(<<"x">>), JUndef, JUndef, JUndef)}}
    \cup {SetCall(sWork, sSeed, Attributes(JUndef, JUndef, JBool(TRUE), JNum(1)))}

BodiesInit ==
    /\ lists \in {StoreWithBody(body) : body \in NotedBodies}
    /\ now = QueryDay * TicksPerDay
    /\ nextId = 2
    /\ op = [name |-> "none", listName |-> <<>>, reminderName |-> <<>>,
             args |-> JUndef, store |-> lists]
    /\ ret = Returns(JUndef)
    /\ calls = <<>>
    /\ steps = 0

CreateNoted ==
    /\ steps < MaxWrites
    /\ \E call \in NotedCreates :
          /\ op' = [name |-> "createReminder", listName |-> call.listName,
                    reminderName |-> call.title, args |-> call, store |-> lists]
          /\ Done(createReminder(lists, call.listName, call.title, call.dueDate,
                                 call.notes, call.flagged, call.priority, call.tags,
                                 call.location))

SetBody ==
    /\ steps < MaxWrites
    /\ \E call \in BodySets :
          /\ op' = [name |-> "setReminderAttributes", listName |-> call.listName,
                    reminderName |-> call.reminderName, args |-> call.attributes,
                    store |-> lists]
          /\ Done(setReminderAttributes(lists, call.listName, call.reminderName,
                                        call.attributes, now))

BodiesNext == CreateNoted \/ SetBody

SpecBodies == BodiesInit /\ [][BodiesNext]_vars

\* The body the operation that has run handed to the store, when it handed
\* one: reminderData.body of a create, updatePayload.body of an update.
BodyWritten ==
    IF calls = <<>> THEN JUndef
    ELSE IF calls[1].fn = "createReminder" THEN calls[1].data.body
    ELSE IF calls[1].fn = "updateReminder" /\ "body" \in DOMAIN calls[1].data
      THEN calls[1].data.body
    ELSE JUndef

\* bodyParts.notes of a setReminderAttributes for the reminder looked up.
NotesParsed(targetReminder) ==
    IF targetReminder.ok /\ targetReminder.v.found
    THEN parseReminderBody(targetReminder.v.item.body).notes
    ELSE JUndef

\* The notes the body was composed from: the notes argument of a create,
\* bodyParts.notes of a setReminderAttributes.
NotesComposed ==
    IF Ran("createReminder") THEN op.args.notes
    ELSE IF Ran("setReminderAttributes") THEN NotesParsed(Target)
    ELSE JUndef

\* The places of a text where a marker starts.
MarkerStarts(text) ==
    {i \in 1..(Len(text) - Len(METADATA_PREFIX) + 1) :
        SubSeq(text, i, i + Len(METADATA_PREFIX) - 1) = METADATA_PREFIX}

\* The marker that starts at a place of a text runs to the end of the text.
EndsInToken(text, start, match) ==
    /\ match.found
    /\ TrailingSpace(text) = 0
    /\ start + Len(METADATA_PREFIX) + Len(match.encoded) + Len(METADATA_SUFFIX)
          = Len(text) + 1

\* The one marker of a text is its final text, white space separates it
\* from the text before it, and its token decodes to metadata that is not
\* empty.
TrailingMarker(text, start, parts) ==
    /\ EndsInToken(text, start, MatchMetadata(text))
    /\ start > 1 => IsSpace(text[start - 1])
    /\ ~parts.threw
    /\ RecoveredTags(parts) # JArr(<<>>) \/ RecoveredLocation(parts) # JNull

AtMostOneMarker(body, starts) ==
    \/ starts = {}
    \/ /\ Cardinality(starts) = 1
       /\ TrailingMarker(body.s, CHOOSE start \in starts : TRUE, parseReminderBody(body))

\* C22: in every sequence of createReminder and setReminderAttributes
\* calls, a body written from notes without sentinel text holds no marker,
\* or holds exactly one, which ends the body, follows white space when text
\* precedes it, and decodes to metadata that is not empty.
C22_OneTrailingMarker ==
    BodyWritten.t = "string" /\ ~HasSentinel(NotesComposed) =>
        AtMostOneMarker(BodyWritten, MarkerStarts(BodyWritten.s))

\* C22's case: a second setReminderAttributes on the same reminder, whose
\* body the first one wrote with a marker, has written a body with one
\* marker after its notes.
C22_Witness ==
    /\ Ran("setReminderAttributes")
    /\ steps = 2
    /\ TargetFound
    /\ op.reminderName = sSeed
    /\ Target.v.item.body \notin NotedBodies
    /\ Target.v.item.body.t = "string"
    /\ Cardinality(MarkerStarts(Target.v.item.body.s)) = 1
    /\ DecodedBefore.notes = Str("n")
    /\ BodyWritten.t = "string"
    /\ Cardinality(MarkerStarts(BodyWritten.s)) = 1
    /\ BodyWritten # Target.v.item.body
    /\ StartsWith(BodyWritten.s, Chars("n\n\n") \o METADATA_PREFIX)

\* The place in Work of the row setReminderAttributes was called for.
TargetPlace(items, id) == CHOOSE i \in 1..Len(items) : items[i].id = id

\* The notes getRemindersFromList reports for the row at a place of Work.
NotesReported(store, place) == getRemindersFromList(store, sWork, now).ret.v[place].notes

\* What is left of notes once a marker was written after them and read
\* back: the trailing white space is gone, and notes that were only white
\* space are absent.
NotesKept(notes) ==
    IF notes.t # "string" \/ TrimEnd(notes.s) = <<>> THEN JNull
    ELSE JStr(TrimEnd(notes.s))

\* The notes once no marker is left: blank notes are not written back.
NotesUnmarked(notes) == IF HasNotes(notes) THEN notes ELSE JNull

NotesCompared(before, after, written) ==
    IF HasSentinel(before) THEN TRUE
    ELSE IF written.t # "string" THEN after = before
    ELSE IF MarkerStarts(written.s) = {} THEN after = NotesUnmarked(before)
    ELSE after = NotesKept(before)

NotesAtPlace(place) ==
    NotesCompared(NotesReported(op.store, place), NotesReported(lists, place), BodyWritten)

SameAtPlace(place) == NotesReported(lists, place) = NotesReported(op.store, place)

\* The notes reported for the reminder looked up, before and after the call.
NotesAfter(targetReminder) ==
    targetReminder.ok /\ targetReminder.v.found =>
        NotesAtPlace(TargetPlace(op.store[1].items, targetReminder.v.item.id))

NotesSame(targetReminder) ==
    targetReminder.ok /\ targetReminder.v.found =>
        SameAtPlace(TargetPlace(op.store[1].items, targetReminder.v.item.id))

\* The update never carries the name, the due date or the completed flag.
NativeFieldsKept == DOMAIN calls[1].data \subseteq {"body", "flagged", "priority"}

\* C23 as stated: the notes getRemindersFromList reports for the reminder
\* after setReminderAttributes are the notes it reported before, whatever
\* was supplied, and the update writes no name, due date or completed flag.
C23_NotesAsStated ==
    Ran("setReminderAttributes") =>
        /\ NotesSame(Target)
        /\ calls # <<>> => NativeFieldsKept

\* C23: when the notes reported before setReminderAttributes hold no
\* sentinel text, the notes reported after it are those notes without
\* their trailing white space when the call wrote a marker, are absent when
\* the notes were only white space and the call wrote a body, and are the
\* notes reported before in every other case; the update writes no name,
\* due date or completed flag.
C23_NotesKept ==
    Ran("setReminderAttributes") =>
        /\ NotesAfter(Target)
        /\ calls # <<>> => NativeFieldsKept

\* C23's case: tags were set on a reminder whose notes ended in white
\* space, and the notes reported afterwards are the same without it.
C23_Witness ==
    /\ Ran("setReminderAttributes")
    /\ TargetFound
    /\ SuppliedTags = TagList(<<"x">>)
    /\ NotesReported(op.store, TargetPlace(op.store[1].items, Target.v.item.id)) = Str("n ")
    /\ NotesReported(lists, TargetPlace(op.store[1].items, Target.v.item.id)) = Str("n")
    /\ NativeFieldsKept

----------------------------------------------------------------------------
(* Completion through a smart list. Work holds up to MaxSmartRows rows and *)
(* Home one row, which may be the first row of Work once more; the rows    *)
(* are open or completed, flagged or not, due the day before or at the     *)
(* last instant of the day. A caller completes the reminder called a       *)
(* through one of the smart lists, with the same call again and again,     *)
(* while the clock runs on into the next day; nobody else edits the store. *)

MaxSmartRows == 2

sA == Chars("a")

\* A row of one of the kinds; its notes are its identifier, so that the
\* records of a read tell the rows apart.
SmartRow(id, kind) ==
    [id |-> JStr(id), body |-> JStr(id), priority |-> JNum(0),
     name |-> IF kind = "other" THEN Str("b") ELSE JStr(sA),
     completed |-> JBool(kind = "done"),
     flagged |-> JBool(kind # "late"),
     dueDate |-> IF kind = "soon" THEN JDate((QueryDay + 1) * TicksPerDay - 1)
                 ELSE JDate((QueryDay - 1) * TicksPerDay)]

RowKinds == {"late", "soon", "other", "done"}

\* Home holds a row of its own, or the first row of Work again.
SmartStore(kinds, home) ==
    <<[id |-> <<"L", 1>>, name |-> sWork,
       items |-> [i \in 1..Len(kinds) |-> SmartRow(<<"W", ToString(i)>>, kinds[i])]],
      [id |-> <<"L", 2>>, name |-> Chars("Home"),
       items |-> IF home # "same" THEN <<SmartRow(<<"H">>, home)>>
                 ELSE IF kinds = <<>> THEN <<>>
                 ELSE <<SmartRow(<<"W", "1">>, kinds[1])>>]>>

\* The names the smart lists are called by.
SmartListCalls ==
    {Chars("Smart: Today"), Chars("planned"), Chars("smart: flagged"), Chars("Overdue")}

CompleteInit ==
    /\ \E kinds \in SeqsUpTo(RowKinds, MaxSmartRows), home \in {"same", "late", "soon"} :
          lists = SmartStore(kinds, home)
    /\ now = QueryDay * TicksPerDay
    /\ \E listName \in SmartListCalls :
          op = [name |-> "none", listName |-> listName, reminderName |-> sA,
                store |-> lists, at |-> now, earlier |-> {}, done |-> {}]
    /\ ret = Returns(JUndef)
    /\ calls = <<>>
    /\ nextId = 1
    /\ steps = 0

\* The identifiers of the items a call has completed.
Completed(outcome) == {outcome.calls[i].id : i \in 1..Len(outcome.calls)}

Completion(outcome) ==
    /\ op' = [op EXCEPT !.name = "completeReminder", !.store = lists, !.at = now,
                        !.earlier = op.done,
                        !.done = op.done \cup Completed(outcome)]
    /\ ret' = outcome.ret
    /\ calls' = outcome.calls
    /\ lists' = StoreAfterCalls(lists, outcome.calls, nextId)
    /\ UNCHANGED <<now, nextId, steps>>

CompleteThroughSmartList ==
    Completion(completeReminder(lists, op.listName, op.reminderName, now))

\* Time passes between the calls, into the first instant of the next day.
ClockTick ==
    /\ now < (QueryDay + 1) * TicksPerDay
    /\ now' = now + 1
    /\ UNCHANGED <<lists, nextId, op, ret, calls, steps>>

CompleteNext == CompleteThroughSmartList \/ ClockTick

SpecComplete == CompleteInit /\ [][CompleteNext]_vars

\* The places of a store, list after list, and the places that make up the
\* union without repeats: those whose identifier no earlier place has.
Places(store) == {p \in (1..Len(store)) \X (1..MaxSmartRows + 1) : p[2] <= Len(store[p[1]].items)}
Before(p, q) == p[1] < q[1] \/ (p[1] = q[1] /\ p[2] < q[2])
ItemAt(store, p) == store[p[1]].items[p[2]]
UnionPlaces(store) ==
    {p \in Places(store) :
        \A q \in Places(store) : Before(q, p) => ItemAt(store, q).id # ItemAt(store, p).id}

\* The places of the union whose item has the name and satisfies the
\* predicate of the smart list at an instant.
Candidates(store, smartList, reminderName, clock) ==
    {p \in UnionPlaces(store) :
        /\ ItemAt(store, p).name = JStr(reminderName)
        /\ Predicate(smartList, ItemAt(store, p), clock)}

FirstPlace(places) == CHOOSE p \in places : \A q \in places : p = q \/ Before(p, q)

\* The notes of the records a read of a list returns now.
NotesRead(listName) ==
    LET records == getRemindersFromList(lists, listName, now).ret.v
    IN {records[i].notes : i \in 1..Len(records)}

\* The items completed are not among the notes read from the list and are
\* among those read from Smart: Completed.
MovedToCompleted(inList, inCompleted) ==
    \A id \in op.done : JStr(id) \notin inList /\ JStr(id) \in inCompleted

\* The call went for the first of the candidates, or found none.
WentForFirst(candidates) ==
    IF candidates = {} THEN ret = Returns(FALSE) /\ calls = <<>> /\ lists = op.store
    ELSE /\ ret = Returns(TRUE)
         /\ calls = <<[fn |-> "updateReminder",
                       id |-> ItemAt(op.store, FirstPlace(candidates)).id.s,
                       data |-> ("completed" :> JBool(TRUE))]>>
         /\ lists = WithCompleted(op.store, ItemAt(op.store, FirstPlace(candidates)).id)

\* C24: completeReminder through Today, Scheduled, Flagged or Overdue
\* completes the first item of that name among the items of the union
\* without repeats that satisfy the list's predicate when the call is made,
\* and returns false when there is none; from then on the item completed is
\* not in what getRemindersFromList returns for that list and is in what it
\* returns for Smart: Completed, and no later call selects it again.
C24_SmartLookup ==
    /\ Ran("completeReminder") =>
          /\ Resolution.ok /\ Resolution.v.kind = "smart"
          /\ WentForFirst(Candidates(op.store, Resolution.v.smartList,
                                     op.reminderName, op.at))
          /\ \A id \in op.earlier : calls # <<>> => calls[1].id # id
    /\ MovedToCompleted(NotesRead(op.listName), NotesRead(Chars("Smart: Completed")))

\* C24's case: the first call through Overdue completed the row that is
\* both in Work and in Home, and the second identical call has completed
\* the next one of that name.
C24_Witness ==
    /\ Ran("completeReminder")
    /\ op.listName = Chars("Overdue")
    /\ op.earlier = {<<"W", "1">>}
    /\ ret = Returns(TRUE)
    /\ calls[1].id = <<"W", "2">>
    /\ Len(lists[2].items) = 1
    /\ lists[2].items[1].id = JStr(<<"W", "1">>)
    /\ isCompleted(lists[2].items[1])

----------------------------------------------------------------------------
(* setReminderAttributes as the steps it is made of. The call awaits the   *)
(* lookup, computes the body from what the lookup returned, and awaits the *)
(* update; between the two, other callers and other writers run. Work      *)
(* holds the row called seed; two callers each make one call that supplies *)
(* tags or a location, and another writer edits the body of the row up to  *)
(* MaxEdits times.                                                         *)

MaxEdits == 1

Callers == {1, 2}

\* What a call supplies.
RaceAttributes ==
    {Attributes(TagList(<<"x">>), JUndef, JUndef, JUndef),
     Attributes(JUndef, HomeLocation, JUndef, JUndef),
     Attributes(TagList(<<>>), JNull, JUndef, JUndef)}

\* The bodies the row starts with, and the bodies the other writer stores.
RaceBodies ==
    {Str("n"),
     MarkedBody(Chars("n\n\n"), TokenOf(JObj(<<<<kTags, TagList(<<"a">>)>>>>)), <<>>)}

EditedBodies ==
    {Str("m"),
     MarkedBody(Chars("n\n\n"), TokenOf(JObj(<<<<kTags, TagList(<<"e">>)>>>>)), <<>>)}

StoredBody == lists[1].items[1].body

RaceInit ==
    /\ lists \in {StoreWithBody(body) : body \in RaceBodies}
    /\ now = QueryDay * TicksPerDay
    /\ nextId = 2
    /\ op = [last |-> 0,
             callers |-> [p \in Callers |->
                            [pc |-> "called", args |-> JUndef, targetReminder |-> JUndef,
                             replaced |-> JUndef, wrote |-> JUndef,
                             ret |-> Returns(JUndef)]]]
    /\ ret = Returns(JUndef)
    /\ calls = <<>>
    /\ steps = 0

\* The body the update is computed from, were it read again at the update.
TargetBody_Stored(targetReminder, stored) == stored

\* parseReminderBody(targetReminder.body): the body the lookup returned.
TargetBody(targetReminder, stored) == targetReminder.body

\* const targetReminder = await getReminderByName(listName, reminderName,
\* ["name", "id", "body"]), with the attributes the call was made with.
SetLookup(p) ==
    /\ op.callers[p].pc = "called"
    /\ \E attributes \in RaceAttributes :
          op' = [op EXCEPT !.callers[p].pc = "looked up",
                           !.callers[p].args = attributes,
                           !.callers[p].targetReminder =
                               getReminderByName(lists, sWork, sSeed,
                                                 {"name", "id", "body"}, now).v.item]
    /\ UNCHANGED <<lists, now, nextId, ret, calls, steps>>

\* The rest of the call: the payload, await reminders.updateReminder, return.
Updated(p, outcome) ==
    /\ op' = [op EXCEPT !.last = IF outcome.calls # <<>> THEN p ELSE @,
                        !.callers[p].pc = "returned",
                        !.callers[p].replaced = StoredBody,
                        !.callers[p].wrote =
                            IF outcome.calls # <<>> THEN outcome.calls[1].data.body
                            ELSE JUndef,
                        !.callers[p].ret = outcome.ret]
    /\ ret' = outcome.ret
    /\ calls' = outcome.calls
    /\ lists' = StoreAfterCalls(lists, outcome.calls, nextId)
    /\ UNCHANGED <<now, nextId, steps>>

SetUpdate(p) ==
    /\ op.callers[p].pc = "looked up"
    /\ Updated(p, IssueUpdate(
                      op.callers[p].targetReminder.id.s,
                      UpdatePayload([op.callers[p].targetReminder EXCEPT
                                        !.body = TargetBody(op.callers[p].targetReminder,
                                                            StoredBody)],
                                    op.callers[p].args)))

\* Another writer stores a body of its own.
ExternalEdit ==
    /\ steps < MaxEdits
    /\ \E body \in EditedBodies :
          /\ body # StoredBody
          /\ lists' = [lists EXCEPT ![1].items[1].body = body]
    /\ op' = [op EXCEPT !.last = 0]
    /\ steps' = steps + 1
    /\ UNCHANGED <<now, nextId, ret, calls>>

RaceNext == (\E p \in Callers : SetLookup(p) \/ SetUpdate(p)) \/ ExternalEdit

SpecRace == RaceInit /\ [][RaceNext]_vars

\* The tags and the location a call leaves, given what the body it read
\* decoded to: what it supplied, and for the rest what it read.
TagsLeft(args, read) ==
    IF Get(args, kTags).t = "undefined" THEN RecoveredTags(read) ELSE Get(args, kTags)

LocationLeft(args, read) ==
    IF Get(args, kLocation).t = "undefined" THEN RecoveredLocation(read)
    ELSE normalizeLocation(Get(args, kLocation), FALSE).v

\* The body written decodes to the notes read and to the tags and location
\* left.
WrittenFrom(written, args, read) ==
    /\ written.notes = read.notes
    /\ RecoveredTags(written) = TagsLeft(args, read)
    /\ RecoveredLocation(written) = LocationLeft(args, read)

\* The call of a caller has returned: it returned true, the body it wrote
\* is made of what its lookup read, and it is the body stored for as long
\* as nobody writes after it.
WroteWhatItRead(p, caller) ==
    caller.pc = "returned" =>
        /\ caller.ret = Returns(TRUE)
        /\ caller.wrote.t = "string"
        /\ WrittenFrom(parseReminderBody(caller.wrote), caller.args,
                       parseReminderBody(caller.targetReminder.body))
        /\ op.last = p => StoredBody = caller.wrote

\* C25: setReminderAttributes with tags or location supplied writes the
\* body computed from the body its lookup read, whatever was written to the
\* reminder between the lookup and the update: the body stored after the
\* update is that body, what the other writer stored is gone, and the call
\* returns true.
C25_LastWriteWins == \A p \in Callers : WroteWhatItRead(p, op.callers[p])

\* C25's case: the second caller set a location between the lookup and the
\* update of the first, which set tags on the body it had read; the body
\* stored is the first caller's and carries no location.
C25_Witness ==
    /\ op.last = 1
    /\ op.callers[1].pc = "returned"
    /\ op.callers[2].pc = "returned"
    /\ op.callers[1].args = Attributes(TagList(<<"x">>), JUndef, JUndef, JUndef)
    /\ op.callers[2].args = Attributes(JUndef, HomeLocation, JUndef, JUndef)
    /\ op.callers[1].replaced = op.callers[2].wrote
    /\ op.callers[1].replaced # op.callers[1].targetReminder.body
    /\ RecoveredLocation(parseReminderBody(op.callers[1].replaced)) # JNull
    /\ RecoveredLocation(parseReminderBody(StoredBody)) = JNull
    /\ RecoveredTags(parseReminderBody(StoredBody)) = TagList(<<"x">>)

----------------------------------------------------------------------------
(* The predicates of the smart lists side by side. Work holds one item     *)
(* whose completed flag, flag and due date take every form the store       *)
(* hands out, Home one open item that is due; the clock reads any instant  *)
(* of the day, and each smart list is read at that instant.                *)

\* The forms of the fields of an item.
CompletedForms == {JUndef, JNull, JBool(FALSE), JBool(TRUE)}
FlaggedForms == {JUndef, JBool(FALSE), JBool(TRUE)}
DueForms ==
    {JUndef, JNull, JDate(0), JInvalidDate, Str("1970-01-02"), Str("bogus"),
     JDate((QueryDay - 1) * TicksPerDay), JDate(QueryDay * TicksPerDay),
     JDate((QueryDay + 1) * TicksPerDay - 1), JDate((QueryDay + 1) * TicksPerDay)}

FormedItem(id, completed, flagged, dueDate) ==
    [id |-> JStr(id), name |-> JStr(id), body |-> JNull, priority |-> JNum(0),
     completed |-> completed, flagged |-> flagged, dueDate |-> dueDate]

FormedStore(item, due) ==
    <<[id |-> <<"L", 1>>, name |-> sWork, items |-> <<item>>],
      [id |-> <<"L", 2>>, name |-> Chars("Home"),
       items |-> <<FormedItem(<<"H">>, JBool(FALSE), JBool(FALSE), JDate(due))>>]>>

PredicatesInit ==
    /\ now \in InstantsOf(QueryDay)
    /\ \E completed \in CompletedForms, flagged \in FlaggedForms, dueDate \in DueForms,
          due \in {(QueryDay - 1) * TicksPerDay, (QueryDay + 1) * TicksPerDay - 1} :
          lists = FormedStore(FormedItem(<<"W">>, completed, flagged, dueDate), due)
    /\ op = [name |-> "none", listName |-> <<>>]
    /\ ret = Returns(JUndef)
    /\ calls = <<>>
    /\ nextId = 1
    /\ steps = 0

ReadSmartList ==
    /\ op.name = "none"
    /\ \E k \in 1..Len(SMART_LISTS) :
          /\ op' = [name |-> "getRemindersFromList",
                    listName |-> smartListDisplayName(SMART_LISTS[k].name)]
          /\ ret' = getRemindersFromList(lists, op'.listName, now).ret
    /\ UNCHANGED <<lists, now, nextId, calls, steps>>

PredicatesNext == ReadSmartList

SpecPredicates == PredicatesInit /\ [][PredicatesNext]_vars

\* The item satisfies the predicate of the smart list of a name now.
Satisfies(item, name) == Predicate(getSmartListByName(Chars(name)).smartList, item, now)

ConsistentFor(item) ==
    /\ Satisfies(item, "All")
    /\ Satisfies(item, "Completed") =>
          \A name \in {"Today", "Scheduled", "Flagged", "Overdue"} : ~Satisfies(item, name)
    /\ Satisfies(item, "Today") \/ Satisfies(item, "Overdue") =>
          Satisfies(item, "Scheduled")

\* Every record of the read is among the records of a read of Smart: All.
AmongAll(records, all) == \A i \in 1..Len(records) : \E j \in 1..Len(all) : all[j] = records[i]

\* C26: at one instant every stored item satisfies All, an item that
\* satisfies Completed satisfies none of Today, Scheduled, Flagged and
\* Overdue, an item that satisfies Today or Overdue satisfies Scheduled,
\* and every record a read of a smart list returns is among the records a
\* read of Smart: All returns.
C26_PredicatesConsistent ==
    /\ \A k \in 1..Len(lists) : \A i \in 1..Len(lists[k].items) :
          ConsistentFor(lists[k].items[i])
    /\ Ran("getRemindersFromList") =>
          /\ ret.ok
          /\ AmongAll(ret.v, getRemindersFromList(lists, Chars("Smart: All"), now).ret.v)

\* C26's case: Overdue was read when the item of Work, open and flagged,
\* was due earlier on the day of the query, so that it is in Today,
\* Scheduled, Flagged and Overdue at once, and the read returned both items.
C26_Witness ==
    /\ Ran("getRemindersFromList")
    /\ op.listName = Chars("Smart: Overdue")
    /\ now > QueryDay * TicksPerDay
    /\ \A name \in {"Today", "Scheduled", "Flagged", "Overdue"} :
          Satisfies(lists[1].items[1], name)
    /\ Len(ret.v) = 2

====
